---- MODULE Spec2Model ----
(***************************************************************************)
(* Model of yangson's persistent instance zipper (yangson/instance.py)     *)
(* over a small schema tree (yangson/schema.py).                           *)
(*                                                                         *)
(* Python objects that the code mutates in place (ObjectValue, ArrayValue, *)
(* i.e. dict and list subclasses) live in `heap' and are referred to by    *)
(* their address, so that aliasing between instance nodes is visible.      *)
(* Instance nodes and LinkedList cells are never assigned to after their   *)
(* construction; nodes live in `nodes', linked lists are sequences whose   *)
(* first element is the head.                                              *)
(***************************************************************************)
EXTENDS Integers, Sequences, FiniteSets, TLC

VARIABLES heap, nodes, now, last, snap, run

vars == <<heap, nodes, now, last, snap, run>>

\* ------------------------------------------------------------------ bounds
\* Largest number of instance nodes held at once.
MaxNodes == 4
\* Largest reading of the wall clock.
MaxClock == 1

\* ----------------------------------------------------------- Python helpers
Max(a, b) == IF a >= b THEN a ELSE b
Min(a, b) == IF a <= b THEN a ELSE b

Reverse(s) == [j \in 1..Len(s) |-> s[Len(s) + 1 - j]]

\* Python's s[lo:hi] on a list (0-based, negative bounds count from the tail,
\* bounds are clamped).
PyNorm(n, L) == IF n < 0 THEN Max(n + L, 0) ELSE Min(n, L)
PySlice(s, lo, hi) ==
    LET a == PyNorm(lo, Len(s))
        b == PyNorm(hi, Len(s))
    IN  IF b <= a THEN <<>> ELSE [j \in 1..(b - a) |-> s[a + j]]

\* Python's s[i] on a list: is i a valid subscript, and the element.
PyInRange(s, i) == -Len(s) <= i /\ i < Len(s)
PyIndex(s, i) == IF i < 0 THEN s[Len(s) + i + 1] ELSE s[i + 1]

\* str.partition(":") on a string given as a sequence of characters:
\* <<head, sep, tail>>, sep empty when there is no colon.
RECURSIVE ColonAt(_, _)
ColonAt(str, j) ==
    IF j > Len(str) THEN 0
    ELSE IF str[j] = ":" THEN j ELSE ColonAt(str, j + 1)
Partition(str) ==
    LET c == ColonAt(str, 1)
    IN  IF c = 0 THEN <<str, <<>>, <<>>>>
        ELSE <<SubSeq(str, 1, c - 1), <<":">>, SubSeq(str, c + 1, Len(str))>>

\* ------------------------------------------------------------------- values
\* A value is a scalar or the address of a structured value on the heap.
NoVal == [t |-> "none", s |-> "", r |-> 0]
Scalar(s) == [t |-> "s", s |-> s, r |-> 0]
Ref(r) == [t |-> "r", s |-> "", r |-> r]

\* Instance keys: member names (strings) and entry indices (integers).
NameKey(n) == [k |-> "n", n |-> n, i |-> 0]
IndexKey(i) == [k |-> "i", n |-> <<>>, i |-> i]

\* A heap cell: an ObjectValue (names[j] maps to vals[j], in insertion
\* order) or an ArrayValue (vals), with its timestamp.
ObjCell(names, vals, ts) == [kind |-> "obj", names |-> names, vals |-> vals, ts |-> ts]
ArrCell(vals, ts) == [kind |-> "arr", names |-> <<>>, vals |-> vals, ts |-> ts]

IsObject(h, v) == v.t = "r" /\ h[v.r].kind = "obj"
IsArray(h, v) == v.t = "r" /\ h[v.r].kind = "arr"
IsStructured(h, v) == v.t = "r"

\* dict operations on a cell
DictPos(c, name) ==
    IF \E j \in 1..Len(c.names) : c.names[j] = name
    THEN CHOOSE j \in 1..Len(c.names) : c.names[j] = name
    ELSE 0
DictHas(c, name) == DictPos(c, name) # 0
DictGet(c, name) == c.vals[DictPos(c, name)]
RemoveAt(s, j) == SubSeq(s, 1, j - 1) \o SubSeq(s, j + 1, Len(s))
\* dict.pop(name) / del d[name]: the cell without the member.
DictDel(c, name) ==
    [c EXCEPT !.names = RemoveAt(c.names, DictPos(c, name)),
              !.vals = RemoveAt(c.vals, DictPos(c, name))]
\* d[name] = v: an existing member keeps its place, a new one goes last.
DictSet(c, name, v) ==
    IF DictHas(c, name)
    THEN [c EXCEPT !.vals[DictPos(c, name)] = v]
    ELSE [c EXCEPT !.names = Append(c.names, name), !.vals = Append(c.vals, v)]
\* del l[i] on a list cell, i a valid subscript.
ListDel(c, i) ==
    [c EXCEPT !.vals = RemoveAt(c.vals, IF i < 0 THEN Len(c.vals) + i + 1 ELSE i + 1)]

\* StructuredValue.copy(): a shallow copy at a new address, stamped now.
StructuredValue_copy(h, id, t) ==
    [h |-> Append(h, [h[id] EXCEPT !.ts = t]), id |-> Len(h) + 1]

\* -------------------------------------------------------------- linked list
\* LinkedList.cons
cons(l, v) == <<v>> \o l
\* LinkedList.from_list: cons the values in reverse, so the head of the
\* result is vals[0].
RECURSIVE from_list_loop(_, _)
from_list_loop(rvals, res) ==
    IF rvals = <<>> THEN res
    ELSE from_list_loop(Tail(rvals), cons(res, Head(rvals)))
from_list(vals) == from_list_loop(Reverse(vals), <<>>)

\* ------------------------------------------------------------------- schema
Str_m == <<"m">>
Str_n == <<"n">>
\* The schema tree, below the schema root whose namespace is None (the empty
\* string).  Module m:
\*   leaf a;  list l { key k; leaf k; leaf p; }  choice ch { leaf d; }
\*   leaf-list s;  list t { key "k p"; leaf k; leaf p; }
\*   container c { choice o { leaf y; }  leaf y;  leaf x (of module n);
\*                 container e { leaf z; }  leaf x; }
\* A choice holds its leaf in a case of the same name.  keys are the
\* (name, namespace) pairs of a list's keys.
SchemaTree ==
    <<[kind |-> "root", name |-> <<>>, ns |-> <<>>, parent |-> 0, children |-> <<2, 3, 4, 9, 10, 13>>, keys |-> <<>>],
      [kind |-> "leaf", name |-> <<"a">>, ns |-> Str_m, parent |-> 1, children |-> <<>>, keys |-> <<>>],
      [kind |-> "list", name |-> <<"l">>, ns |-> Str_m, parent |-> 1, children |-> <<6, 7>>,
       keys |-> <<<<<<"k">>, Str_m>>>>],
      [kind |-> "choice", name |-> <<"c", "h">>, ns |-> Str_m, parent |-> 1, children |-> <<5>>, keys |-> <<>>],
      [kind |-> "case", name |-> <<"d">>, ns |-> Str_m, parent |-> 4, children |-> <<8>>, keys |-> <<>>],
      [kind |-> "leaf", name |-> <<"k">>, ns |-> Str_m, parent |-> 3, children |-> <<>>, keys |-> <<>>],
      [kind |-> "leaf", name |-> <<"p">>, ns |-> Str_m, parent |-> 3, children |-> <<>>, keys |-> <<>>],
      [kind |-> "leaf", name |-> <<"d">>, ns |-> Str_m, parent |-> 5, children |-> <<>>, keys |-> <<>>],
      [kind |-> "leaflist", name |-> <<"s">>, ns |-> Str_m, parent |-> 1, children |-> <<>>, keys |-> <<>>],
      [kind |-> "list", name |-> <<"t">>, ns |-> Str_m, parent |-> 1, children |-> <<11, 12>>,
       keys |-> <<<<<<"k">>, Str_m>>, <<<<"p">>, Str_m>>>>],
      [kind |-> "leaf", name |-> <<"k">>, ns |-> Str_m, parent |-> 10, children |-> <<>>, keys |-> <<>>],
      [kind |-> "leaf", name |-> <<"p">>, ns |-> Str_m, parent |-> 10, children |-> <<>>, keys |-> <<>>],
      [kind |-> "container", name |-> <<"c">>, ns |-> Str_m, parent |-> 1,
       children |-> <<14, 17, 18, 19, 21>>, keys |-> <<>>],
      [kind |-> "choice", name |-> <<"o">>, ns |-> Str_m, parent |-> 13, children |-> <<15>>, keys |-> <<>>],
      [kind |-> "case", name |-> <<"y">>, ns |-> Str_m, parent |-> 14, children |-> <<16>>, keys |-> <<>>],
      [kind |-> "leaf", name |-> <<"y">>, ns |-> Str_m, parent |-> 15, children |-> <<>>, keys |-> <<>>],
      [kind |-> "leaf", name |-> <<"y">>, ns |-> Str_m, parent |-> 13, children |-> <<>>, keys |-> <<>>],
      [kind |-> "leaf", name |-> <<"x">>, ns |-> Str_n, parent |-> 13, children |-> <<>>, keys |-> <<>>],
      [kind |-> "container", name |-> <<"e">>, ns |-> Str_m, parent |-> 13, children |-> <<20>>, keys |-> <<>>],
      [kind |-> "leaf", name |-> <<"z">>, ns |-> Str_m, parent |-> 19, children |-> <<>>, keys |-> <<>>],
      [kind |-> "leaf", name |-> <<"x">>, ns |-> Str_m, parent |-> 13, children |-> <<>>, keys |-> <<>>]>>

IsDataNode(sn) == SchemaTree[sn].kind \in {"leaf", "leaflist", "container", "list"}
IsChoiceOrCase(sn) == SchemaTree[sn].kind \in {"choice", "case"}
IsInternalNode(sn) == SchemaTree[sn].kind \in {"root", "container", "list", "choice", "case"}

\* InternalNode.get_data_child: the first loop returns a matching data child
\* at once and collects the candidates (a matching non-data child first,
\* other choices and cases after); the second loop descends into them.
RECURSIVE gdc_scan(_, _, _, _), gdc_cands(_, _, _), get_data_child(_, _, _)
gdc_scan(ch, name, ns, cands) ==
    IF ch = <<>> THEN [found |-> 0, cands |-> cands]
    ELSE LET c == Head(ch)
         IN  IF SchemaTree[c].name = name /\ SchemaTree[c].ns = ns
             THEN IF IsDataNode(c)
                  THEN [found |-> c, cands |-> cands]
                  ELSE gdc_scan(Tail(ch), name, ns, <<c>> \o cands)
             ELSE IF IsChoiceOrCase(c)
                  THEN gdc_scan(Tail(ch), name, ns, Append(cands, c))
                  ELSE gdc_scan(Tail(ch), name, ns, cands)
gdc_cands(cands, name, ns) ==
    IF cands = <<>> THEN 0
    ELSE LET res == get_data_child(Head(cands), name, ns)
         IN  IF res # 0 THEN res ELSE gdc_cands(Tail(cands), name, ns)
get_data_child(sn, name, nsArg) ==
    LET ns == IF nsArg # <<>> THEN nsArg ELSE SchemaTree[sn].ns
        sc == gdc_scan(SchemaTree[sn].children, name, ns, <<>>)
    IN  IF sc.found # 0 THEN sc.found ELSE gdc_cands(sc.cands, name, ns)

\* SchemaNode._iname2qname: instance name to (local name, namespace).
iname2qname(sn, iname) ==
    LET pt == Partition(iname)
    IN  IF pt[2] # <<>> THEN [loc |-> pt[3], ns |-> pt[1]]
        ELSE [loc |-> pt[1], ns |-> SchemaTree[sn].ns]

\* InstanceNode._member_schema_node: the data child, 0 when get_data_child
\* returns None, -1 when the schema node is a leaf or leaf-list, which has
\* no get_data_child.
member_schema_node(sn, name) ==
    LET qn == iname2qname(sn, name)
    IN  IF IsInternalNode(sn) THEN get_data_child(sn, qn.loc, qn.ns) ELSE -1
\* The exception that ends _member_schema_node without a data child:
\* AttributeError on a leaf or leaf-list; for None the statement raise
\* NonexistentSchemaNode(self.schema_node, *qname) gives three arguments to
\* a class whose __init__ takes two (name, ns), which is a TypeError.
member_schema_node_exc(csn) == IF csn = 0 THEN "TypeError" ELSE "AttributeError"

\* ----------------------------------------------------------- instance nodes
\* The result of a call: the heap and the nodes after it, the exception it
\* raised ("none" when it returned) and the node it returned.
Ok(h, N, res) == [h |-> h, N |-> N, exc |-> "none", res |-> res]
\* A call that raises: h is the heap at the raise.
Raise(h, N, e) == [h |-> h, N |-> N, exc |-> e, res |-> 0]

\* RootNode.__init__
RootNode_new(value, sn, ts) ==
    [kind |-> "root", path |-> <<>>, parinst |-> 0, sn |-> sn, ts |-> ts,
     value |-> value, siblings |-> NoVal, before |-> <<>>, after |-> <<>>]
\* ObjectMember.__init__ (InstanceNode.__init__: path = parinst.path + (key,))
ObjectMember_new(N, key, siblings, value, parinst, sn, ts) ==
    [kind |-> "member", path |-> Append(N[parinst].path, key), parinst |-> parinst,
     sn |-> sn, ts |-> ts, value |-> value, siblings |-> siblings,
     before |-> <<>>, after |-> <<>>]
\* ArrayEntry.__init__
ArrayEntry_new(N, key, before, after, value, parinst, sn, ts) ==
    [kind |-> "entry", path |-> Append(N[parinst].path, key), parinst |-> parinst,
     sn |-> sn, ts |-> ts, value |-> value, siblings |-> NoVal,
     before |-> before, after |-> after]

\* ObjectMember.name / ArrayEntry.index: the last path component.
KeyOf(node) == node.path[Len(node.path)]

\* InstanceNode._member.  The arguments of ObjectMember(...) are evaluated
\* from left to right: sibs.pop(name) before self._member_schema_node(name).
\* A key that is no string makes the handler's "member " + name a TypeError.
member(h, N, x, key, t) ==
    LET self == N[x]
        cp == StructuredValue_copy(h, self.value.r, t)
        sibs == cp.id
    IN  IF ~DictHas(cp.h[sibs], key.n)
        THEN Raise(cp.h, N, IF key.k = "n" THEN "NonexistentInstance" ELSE "TypeError")
        ELSE LET popped == DictGet(cp.h[sibs], key.n)
                 h2 == [cp.h EXCEPT ![sibs] = DictDel(@, key.n)]
                 csn == member_schema_node(self.sn, key.n)
             IN  IF csn <= 0 THEN Raise(h2, N, member_schema_node_exc(csn))
                 ELSE Ok(h2, Append(N, ObjectMember_new(N, key, Ref(sibs), popped, x,
                                                        csn, h2[self.value.r].ts)),
                         Len(N) + 1)

\* _entry without the translation of a negative index.
entry_noNormalize(h, N, x, key) ==
    LET self == N[x]
        val == h[self.value.r].vals
        index == key.i
        i == index
    IN  IF key.k # "i" THEN Raise(h, N, "TypeError")
        ELSE IF ~PyInRange(val, index) THEN Raise(h, N, "NonexistentInstance")
        ELSE Ok(h, Append(N, ArrayEntry_new(N, IndexKey(i),
                                            from_list(PySlice(val, 0, i)),
                                            from_list(PySlice(val, i + 1, Len(val))),
                                            PyIndex(val, index), x, self.sn,
                                            h[self.value.r].ts)),
                Len(N) + 1)

\* InstanceNode._entry.  `index < 0' on a string key is a TypeError raised
\* before the try block.
entry(h, N, x, key) ==
    LET self == N[x]
        val == h[self.value.r].vals
        index == key.i
        i == IF index < 0 THEN Len(val) + index ELSE index
    IN  IF key.k # "i" THEN Raise(h, N, "TypeError")
        ELSE IF ~PyInRange(val, index) THEN Raise(h, N, "NonexistentInstance")
        ELSE Ok(h, Append(N, ArrayEntry_new(N, IndexKey(i),
                                            from_list(PySlice(val, 0, i)),
                                            from_list(PySlice(val, i + 1, Len(val))),
                                            PyIndex(val, index), x, self.sn,
                                            h[self.value.r].ts)),
                Len(N) + 1)

\* InstanceNode.__getitem__
getitem(h, N, x, key, t) ==
    IF IsObject(h, N[x].value) THEN member(h, N, x, key, t)
    ELSE IF IsArray(h, N[x].value) THEN entry(h, N, x, key)
    ELSE Raise(h, N, "InstanceValueError")

\* newts of _copy when the caller passes none
NoTs == -1

\* RootNode._copy: newval.timestamp on a scalar is an AttributeError.
RootNode_copy(h, N, x, newval, newts) ==
    IF newts = NoTs /\ ~IsStructured(h, newval) THEN Raise(h, N, "AttributeError")
    ELSE Ok(h, Append(N, RootNode_new(newval, N[x].sn,
                                      IF newts # NoTs THEN newts ELSE h[newval.r].ts)),
            Len(N) + 1)

\* The timestamp chosen by ObjectMember._copy and ArrayEntry._copy.
copy_ts(h, newval, newts, t) ==
    IF newts # NoTs THEN newts
    ELSE IF IsStructured(h, newval) THEN h[newval.r].ts
    ELSE t

\* ObjectMember._copy: the new member shares the receiver's siblings.
ObjectMember_copy(h, N, x, newval, newts, t) ==
    Ok(h, Append(N, ObjectMember_new(N, KeyOf(N[x]), N[x].siblings, newval,
                                     N[x].parinst, N[x].sn, copy_ts(h, newval, newts, t))),
       Len(N) + 1)

\* ArrayEntry._copy
ArrayEntry_copy(h, N, x, newval, newts, t) ==
    Ok(h, Append(N, ArrayEntry_new(N, KeyOf(N[x]), N[x].before, N[x].after, newval,
                                   N[x].parinst, N[x].sn, copy_ts(h, newval, newts, t))),
       Len(N) + 1)

\* self._copy(newval, newts), dispatched on the receiver's class
copy(h, N, x, newval, newts, t) ==
    IF N[x].kind = "root" THEN RootNode_copy(h, N, x, newval, newts)
    ELSE IF N[x].kind = "member" THEN ObjectMember_copy(h, N, x, newval, newts, t)
    ELSE ArrayEntry_copy(h, N, x, newval, newts, t)

\* InstanceNode.put_member (raw = False): newval = self.value.copy();
\* newval[name] = value; self._copy(newval)._member(name)
put_member(h, N, x, name, value, t) ==
    IF ~IsObject(h, N[x].value) THEN Raise(h, N, "InstanceValueError")
    ELSE IF member_schema_node(N[x].sn, name) <= 0
    THEN Raise(h, N, member_schema_node_exc(member_schema_node(N[x].sn, name)))
    ELSE LET cp == StructuredValue_copy(h, N[x].value.r, t)
             h1 == [cp.h EXCEPT ![cp.id] = DictSet(@, name, value)]
             c == copy(h1, N, x, Ref(cp.id), NoTs, t)
         IN  member(c.h, c.N, c.res, NameKey(name), t)

\* del newval[key] succeeds
CanDelete(c, key) ==
    IF c.kind = "obj" THEN key.k = "n" /\ DictHas(c, key.n)
    ELSE key.k = "i" /\ PyInRange(c.vals, key.i)

\* delete_item deleting from the receiver's own value, without a copy.
delete_item_onReceiver(h, N, x, key, t) ==
    IF ~IsStructured(h, N[x].value) THEN Raise(h, N, "InstanceValueError")
    ELSE IF ~CanDelete(h[N[x].value.r], key)
    THEN Raise(h, N, IF key.k = "n" THEN "NonexistentInstance" ELSE "TypeError")
    ELSE copy([h EXCEPT ![N[x].value.r] = IF @.kind = "obj" THEN DictDel(@, key.n)
                                          ELSE ListDel(@, key.i)],
              N, x, N[x].value, NoTs, t)

\* InstanceNode.delete_item.  The handler builds its message with
\* "item " + key, which is a TypeError when key is an integer.
delete_item(h, N, x, key, t) ==
    IF ~IsStructured(h, N[x].value) THEN Raise(h, N, "InstanceValueError")
    ELSE LET cp == StructuredValue_copy(h, N[x].value.r, t)
         IN  IF ~CanDelete(cp.h[cp.id], key)
             THEN Raise(cp.h, N, IF key.k = "n" THEN "NonexistentInstance" ELSE "TypeError")
             ELSE LET h1 == [cp.h EXCEPT ![cp.id] =
                                IF @.kind = "obj" THEN DictDel(@, key.n)
                                ELSE ListDel(@, key.i)]
                  IN  copy(h1, N, x, Ref(cp.id), NoTs, t)

\* _zip that leaves the focused member out.
ObjectMember_zip_dropFocus(h, self, t) ==
    StructuredValue_copy(h, self.siblings.r, self.ts)

\* _zip writing the focused member into the receiver's own siblings.
ObjectMember_zip_inplace(h, self, t) ==
    [h |-> [h EXCEPT ![self.siblings.r] = DictSet(@, KeyOf(self).n, self.value)],
     id |-> self.siblings.r]

\* ObjectMember._zip: a new object from the siblings, stamped with the
\* receiver's timestamp, then res[self.name] = self.value.
ObjectMember_zip(h, self, t) ==
    LET cp == StructuredValue_copy(h, self.siblings.r, self.ts)
    IN  [h |-> [cp.h EXCEPT ![cp.id] = DictSet(@, KeyOf(self).n, self.value)],
         id |-> cp.id]

\* The interpreter's rule for a StopIteration raised inside a generator:
\* with generator_stop (PEP 479, every Python from 3.7 on) it becomes a
\* RuntimeError in the consumer, without it (Python 3.5 and 3.6) it ends
\* the generator.  A behaviour runs on one interpreter.
generator_stop == run.generator_stop

\* list(l) for a linked list l: LinkedList.__iter__ leaves its loop, at the
\* end of every list, by raising StopIteration inside the generator.
LinkedList_list(l) ==
    IF generator_stop THEN [exc |-> "RuntimeError", v |-> <<>>]
    ELSE [exc |-> "none", v |-> l]

\* ArrayEntry._zip: list(before) reversed, the value, list(after).  id = 0
\* when list(before) raised RuntimeError.
ArrayEntry_zip(h, self, t) ==
    IF LinkedList_list(self.before).exc # "none" THEN [h |-> h, id |-> 0]
    ELSE [h |-> Append(h, ArrCell(Append(Reverse(LinkedList_list(self.before).v), self.value)
                                      \o LinkedList_list(self.after).v, self.ts)),
          id |-> Len(h) + 1]

zip(h, self, t) ==
    IF self.kind = "member" THEN ObjectMember_zip(h, self, t)
    ELSE ArrayEntry_zip(h, self, t)

\* InstanceNode.up and RootNode.up
up(h, N, x, t) ==
    IF N[x].kind = "root" THEN Raise(h, N, "NonexistentInstance")
    ELSE LET ts == Max(N[x].ts, N[N[x].parinst].ts)
             z == zip(h, N[x], t)
         IN  IF z.id = 0 THEN Raise(h, N, "RuntimeError")
             ELSE copy(z.h, N, N[x].parinst, Ref(z.id), ts, t)

\* InstanceNode.top: while inst.parinst: inst = inst.up()
RECURSIVE top(_, _, _, _)
top(h, N, x, t) ==
    IF N[x].parinst = 0 THEN Ok(h, N, x)
    ELSE LET u == up(h, N, x, t)
         IN  IF u.exc # "none" THEN u ELSE top(u.h, u.N, u.res, t)

\* InstanceNode.update and ArrayEntry.update (raw = False)
update(h, N, x, value, t) == copy(h, N, x, value, NoTs, t)

\* ObjectMember.sibling
sibling(h, N, x, name, t) ==
    LET self == N[x]
        ssn == member_schema_node(N[self.parinst].sn, name)
        cp == StructuredValue_copy(h, self.siblings.r, t)
    IN  IF ssn <= 0 THEN Raise(h, N, member_schema_node_exc(ssn))
        ELSE IF ~DictHas(cp.h[cp.id], name) THEN Raise(cp.h, N, "NonexistentInstance")
        ELSE LET newval == DictGet(cp.h[cp.id], name)
                 h1 == [cp.h EXCEPT ![cp.id] =
                            DictSet(DictDel(@, name), KeyOf(self).n, self.value)]
             IN  Ok(h1, Append(N, ObjectMember_new(N, NameKey(name), Ref(cp.id), newval,
                                                   self.parinst, ssn, self.ts)),
                    Len(N) + 1)

\* ArrayEntry.previous
previous(h, N, x) ==
    LET self == N[x]
    IN  IF self.before = <<>> THEN Raise(h, N, "NonexistentInstance")
        ELSE Ok(h, Append(N, ArrayEntry_new(N, IndexKey(KeyOf(self).i - 1),
                                            Tail(self.before),
                                            cons(self.after, self.value),
                                            Head(self.before), self.parinst, self.sn,
                                            self.ts)),
                Len(N) + 1)

\* ArrayEntry.next
next(h, N, x) ==
    LET self == N[x]
    IN  IF self.after = <<>> THEN Raise(h, N, "NonexistentInstance")
        ELSE Ok(h, Append(N, ArrayEntry_new(N, IndexKey(KeyOf(self).i + 1),
                                            cons(self.before, self.value),
                                            Tail(self.after),
                                            Head(self.after), self.parinst, self.sn,
                                            self.ts)),
                Len(N) + 1)

\* ArrayEntry.insert_before (raw = False)
insert_before(h, N, x, value, t) ==
    LET self == N[x]
    IN  Ok(h, Append(N, ArrayEntry_new(N, KeyOf(self), self.before,
                                       cons(self.after, self.value), value,
                                       self.parinst, self.sn, t)),
           Len(N) + 1)

\* ArrayEntry.insert_after (raw = False)
insert_after(h, N, x, value, t) ==
    LET self == N[x]
    IN  Ok(h, Append(N, ArrayEntry_new(N, KeyOf(self), cons(self.before, self.value),
                                       self.after, value,
                                       self.parinst, self.sn, t)),
           Len(N) + 1)

\* ------------------------------------------------------- observing values
\* Deepest nesting of values that is written out.
MaxDepth == 12

Name_a == <<"a">>
Name_d == <<"d">>
Name_k == <<"k">>
Name_p == <<"p">>
Name_ma == <<"m", ":", "a">>
Name_md == <<"m", ":", "d">>
Name_ml == <<"m", ":", "l">>
Name_ms == <<"m", ":", "s">>
Name_mt == <<"m", ":", "t">>
\* The member names in use, in a fixed order.
AllNames == <<Name_a, Name_d, Name_k, Name_ma, Name_md, Name_ml, Name_ms, Name_mt, Name_p>>

SortedNames(c) == SelectSeq(AllNames, LAMBDA n : DictHas(c, n))

\* A value written out as a sequence of tokens.  Mode "id" is the full
\* state of the value (member order and timestamps included), mode "ord"
\* omits the timestamps, mode "eq" also ignores member order, which is how
\* Python compares two dictionaries.
RECURSIVE Ser(_, _, _, _), SerSeq(_, _, _, _), SerMembers(_, _, _, _, _)
Ser(h, v, mode, d) ==
    IF v.t = "none" THEN <<"None">>
    ELSE IF v.t = "s" THEN <<v.s>>
    ELSE IF d = 0 THEN <<"...">>
    ELSE LET c == h[v.r]
             stamp == IF mode = "id" THEN <<"@", ToString(c.ts)>> ELSE <<>>
         IN  IF c.kind = "arr"
             THEN <<"[">> \o SerSeq(h, c.vals, mode, d - 1) \o <<"]">> \o stamp
             ELSE <<"{">> \o SerMembers(h, c, IF mode = "eq" THEN SortedNames(c) ELSE c.names,
                                        mode, d - 1) \o <<"}">> \o stamp
SerSeq(h, vals, mode, d) ==
    IF vals = <<>> THEN <<>>
    ELSE Ser(h, Head(vals), mode, d) \o <<",">> \o SerSeq(h, Tail(vals), mode, d)
SerMembers(h, c, names, mode, d) ==
    IF names = <<>> THEN <<>>
    ELSE Head(names) \o <<"=">> \o Ser(h, DictGet(c, Head(names)), mode, d) \o <<",">>
         \o SerMembers(h, c, Tail(names), mode, d)

\* v1 == v2 in Python, v1 in heap h1 and v2 in heap h2
PyEq(h1, v1, h2, v2) == Ser(h1, v1, "eq", MaxDepth) = Ser(h2, v2, "eq", MaxDepth)
\* the same value with the same member order
SameOrder(h1, v1, h2, v2) == Ser(h1, v1, "ord", MaxDepth) = Ser(h2, v2, "ord", MaxDepth)

\* The inner loop of look_up over the names of keys (pairs <<name, value>>
\* in the dictionary's order): "match", "differ", or the exception of en[k].
RECURSIVE lookup_keys(_, _, _)
lookup_keys(h, en, keys) ==
    IF keys = <<>> THEN "match"
    ELSE IF ~IsObject(h, en) THEN "TypeError"
    ELSE IF ~DictHas(h[en.r], Head(keys)[1]) THEN "KeyError"
    ELSE IF ~PyEq(h, DictGet(h[en.r], Head(keys)[1]), h, Head(keys)[2]) THEN "differ"
    ELSE lookup_keys(h, en, Tail(keys))

\* The outer loop of look_up, from entry i (0-based) on.
RECURSIVE lookup_scan(_, _, _, _, _)
lookup_scan(h, N, x, keys, i) ==
    LET val == h[N[x].value.r].vals
    IN  IF i >= Len(val) THEN Raise(h, N, "NonexistentInstance")
        ELSE LET r == lookup_keys(h, val[i + 1], keys)
             IN  IF r = "match" THEN entry(h, N, x, IndexKey(i))
                 ELSE IF r = "KeyError" THEN Raise(h, N, "NonexistentInstance")
                 ELSE IF r = "TypeError" THEN Raise(h, N, "InstanceValueError")
                 ELSE lookup_scan(h, N, x, keys, i + 1)

\* InstanceNode.look_up
look_up(h, N, x, keys) ==
    IF ~IsArray(h, N[x].value) THEN Raise(h, N, "InstanceValueError")
    ELSE lookup_scan(h, N, x, keys, 0)

\* What a caller can observe of a node.
Observed(h, node) ==
    [value |-> Ser(h, node.value, "id", MaxDepth), ts |-> node.ts, path |-> node.path,
     siblings |-> Ser(h, node.siblings, "id", MaxDepth),
     before |-> SerSeq(h, node.before, "id", MaxDepth),
     after |-> SerSeq(h, node.after, "id", MaxDepth)]

\* ----------------------------------------------------------------- inputs
Val_u == Scalar("u")
Val_v == Scalar("v")
Val_uv == Scalar("uv")

\* The document the session starts with:
\*   {"m:a": u, "m:l": [{k: u, p: u}, {p: v}, {k: v, p: u}], "m:d": v}
\* The root object was stamped at t0, what it contains at 0.
InitHeap(t0) ==
    <<ObjCell(<<Name_k, Name_p>>, <<Val_u, Val_u>>, 0),
      ObjCell(<<Name_p>>, <<Val_v>>, 0),
      ObjCell(<<Name_k, Name_p>>, <<Val_v, Val_u>>, 0),
      ArrCell(<<Ref(1), Ref(2), Ref(3)>>, 0),
      ObjCell(<<Name_ma, Name_ml, Name_md>>, <<Val_u, Ref(4), Val_v>>, t0)>>
InitCells == Len(InitHeap(0))

\* The values, names and indices that callers pass: update, put_member and
\* the insert methods take any value.
ValInputs == {Val_u, Val_v} \cup {Ref(c) : c \in 1..InitCells}
NameInputs == {Name_a, Name_k, Name_p, Name_ma, Name_md, Name_ml}
IndexInputs == {-4, -1, 0, 1, 2, 3}
KeyInputs == {NameKey(n) : n \in NameInputs} \cup {IndexKey(i) : i \in IndexInputs}
KeysInputs ==
    {<<<<Name_k, Val_u>>>>, <<<<Name_k, Val_v>>>>, <<<<Name_p, Val_v>>>>,
     <<<<Name_k, Val_u>>, <<Name_p, Val_v>>>>}

NoKey == [k |-> "-", n |-> <<>>, i |-> 0]

\* ------------------------------------------------------------ state machine
\* `run' holds the call under way outside a zipper session (peek along a
\* route, a path parser, raw decoding, schema construction, the command
\* line); a zipper session leaves it alone.
NoRun(gs) == [op |-> "none", generator_stop |-> gs]

Init ==
    \E t0 \in 0..1, gs \in BOOLEAN :
        /\ heap = InitHeap(t0)
        /\ nodes = <<RootNode_new(Ref(InitCells), 1, t0)>>
        /\ now = t0
        /\ last = [op |-> "init", x |-> 0, key |-> NoKey, v |-> NoVal, keys |-> <<>>,
                   exc |-> "none", res |-> 1]
        /\ snap = <<Observed(InitHeap(t0), RootNode_new(Ref(InitCells), 1, t0))>>
        /\ run = NoRun(gs)

\* The caller works on the node the last call returned.
Receivers == IF last.exc = "none" THEN {last.res} ELSE {}

\* A call on node x ends with outcome out.  The session goes on until a
\* call raises: nothing catches the exception.
Commit(op, x, key, v, keys, out) ==
    /\ last.exc = "none"
    /\ Len(out.N) <= MaxNodes
    /\ heap' = out.h
    /\ nodes' = out.N
    /\ last' = [op |-> op, x |-> x, key |-> key, v |-> v, keys |-> keys,
                exc |-> out.exc, res |-> out.res]
    /\ snap' = snap \o [j \in 1..(Len(out.N) - Len(nodes)) |->
                            Observed(out.h, out.N[Len(nodes) + j])]
    /\ UNCHANGED <<now, run>>

\* The wall clock advances.
Tick ==
    /\ last.exc = "none"
    /\ now < MaxClock
    /\ now' = now + 1
    /\ UNCHANGED <<heap, nodes, last, snap, run>>

GetItem ==
    \E x \in Receivers, key \in KeyInputs :
        Commit("getitem", x, key, NoVal, <<>>, getitem(heap, nodes, x, key, now))

PutMember ==
    \E x \in Receivers, name \in NameInputs, v \in ValInputs :
        /\ Commit("put_member", x, NameKey(name), v, <<>>,
                  put_member(heap, nodes, x, name, v, now))

DeleteItem ==
    \E x \in Receivers, key \in KeyInputs :
        Commit("delete_item", x, key, NoVal, <<>>, delete_item(heap, nodes, x, key, now))

LookUp ==
    \E x \in Receivers, keys \in KeysInputs :
        Commit("look_up", x, NoKey, NoVal, keys, look_up(heap, nodes, x, keys))

Up ==
    \E x \in Receivers :
        Commit("up", x, NoKey, NoVal, <<>>, up(heap, nodes, x, now))

Top ==
    \E x \in Receivers :
        Commit("top", x, NoKey, NoVal, <<>>, top(heap, nodes, x, now))

Update ==
    \E x \in Receivers, v \in ValInputs :
        /\ Commit("update", x, NoKey, v, <<>>, update(heap, nodes, x, v, now))

Sibling ==
    \E x \in Receivers, name \in NameInputs :
        /\ nodes[x].kind = "member"
        /\ Commit("sibling", x, NameKey(name), NoVal, <<>>,
                  sibling(heap, nodes, x, name, now))

Previous ==
    \E x \in Receivers :
        /\ nodes[x].kind = "entry"
        /\ Commit("previous", x, NoKey, NoVal, <<>>, previous(heap, nodes, x))

Next_ ==
    \E x \in Receivers :
        /\ nodes[x].kind = "entry"
        /\ Commit("next", x, NoKey, NoVal, <<>>, next(heap, nodes, x))

InsertBefore ==
    \E x \in Receivers, v \in ValInputs :
        /\ nodes[x].kind = "entry"
        /\ Commit("insert_before", x, NoKey, v, <<>>, insert_before(heap, nodes, x, v, now))

InsertAfter ==
    \E x \in Receivers, v \in ValInputs :
        /\ nodes[x].kind = "entry"
        /\ Commit("insert_after", x, NoKey, v, <<>>, insert_after(heap, nodes, x, v, now))

Next ==
    \/ Tick
    \/ GetItem
    \/ PutMember
    \/ DeleteItem
    \/ LookUp
    \/ Up
    \/ Top
    \/ Update
    \/ Sibling
    \/ Previous
    \/ Next_
    \/ InsertBefore
    \/ InsertAfter

Spec == Init /\ [][Next]_vars

\* ------------------------------------------------------------------ claims
\* The value of the node a call returned.
ValueOf(o) == o.N[o.res].value
\* The last call returned a node.
Returned(op) == last.op = op /\ last.exc = "none"
\* The heap cell of the value of node x.
CellOf(x) == heap[nodes[x].value.r]

\* C1: for an array node n and a valid index k >= 0, n[k].up() is a node
\* whose value is an array with the entries of n.value in the same order,
\* and n[k].top() has the same value as n.top().
C1_ArrayRoundTrip ==
    (/\ Returned("getitem")
     /\ IsArray(heap, nodes[last.x].value)
     /\ last.key.k = "i" /\ last.key.i >= 0)
    => LET u == up(heap, nodes, last.res, now)
           te == top(heap, nodes, last.res, now)
           tn == top(heap, nodes, last.x, now)
       IN  /\ u.exc = "none"
           /\ IsArray(u.h, ValueOf(u))
           /\ u.h[ValueOf(u).r].vals = CellOf(last.x).vals
           /\ te.exc = "none" /\ tn.exc = "none"
           /\ PyEq(te.h, ValueOf(te), tn.h, ValueOf(tn))

\* An object node was indexed by the name of one of its members.
MemberTaken == Returned("getitem") /\ IsObject(heap, nodes[last.x].value)

\* C2 as stated: for an object node x and a member name m of x.value,
\* x[m].up() has the member names of x.value in the same insertion order.
C2_MemberOrderKept ==
    MemberTaken
    => LET u == up(heap, nodes, last.res, now)
       IN  /\ u.exc = "none"
           /\ IsObject(u.h, ValueOf(u))
           /\ u.h[ValueOf(u).r].names = CellOf(last.x).names

\* C2 as amended: x[m].up() has the same members with the same values as
\* x.value; m comes last in insertion order and the other members keep
\* their relative order.
C2_MemberMovesLast ==
    MemberTaken
    => LET u == up(heap, nodes, last.res, now)
           c == CellOf(last.x)
           m == last.key.n
       IN  /\ u.exc = "none"
           /\ IsObject(u.h, ValueOf(u))
           /\ u.h[ValueOf(u).r].names = Append(RemoveAt(c.names, DictPos(c, m)), m)
           /\ PyEq(u.h, ValueOf(u), heap, nodes[last.x].value)

\* A member that is not the last one of its object was taken.
C2_Witness ==
    /\ MemberTaken
    /\ DictPos(CellOf(last.x), last.key.n) < Len(CellOf(last.x).names)

\* C3: whatever calls were made on a node or on the results of such calls,
\* and whether they returned or raised, the node's value, timestamp, path,
\* siblings, before and after are what they were when the node was made.
C3_Persistence ==
    \A j \in 1..Len(nodes) : Observed(heap, nodes[j]) = snap[j]

\* up() rebuilt the parent object from a member.
C3_Witness ==
    /\ Returned("up")
    /\ nodes[last.x].kind = "member"
    /\ Len(nodes) >= 3

\* C4: delete_item(key) on an object or array node raises
\* NonexistentInstance when key designates no item, and otherwise returns
\* a copy of the receiver whose value is the receiver's without that item.
C4_DeleteItem ==
    (last.op = "delete_item" /\ IsStructured(heap, nodes[last.x].value))
    => LET c == CellOf(last.x)
       IN  IF CanDelete(c, last.key)
           THEN /\ last.exc = "none"
                /\ nodes[last.res].kind = nodes[last.x].kind
                /\ nodes[last.res].path = nodes[last.x].path
                /\ LET d == CellOf(last.res)
                       e == IF c.kind = "obj" THEN DictDel(c, last.key.n)
                            ELSE ListDel(c, last.key.i)
                   IN  d.kind = c.kind /\ d.names = e.names /\ d.vals = e.vals
           ELSE last.exc = "NonexistentInstance"

\* What C5 says of n[i] for the array node x, o being the outcome of n[i].
NegativeIndexOK(x, i, o) ==
    LET val == CellOf(x).vals
        L == Len(val)
        g == getitem(heap, nodes, x, IndexKey(L + i), now)
    IN  IF -L <= i /\ i < 0
        THEN /\ o.exc = "none" /\ g.exc = "none"
             /\ o.N[o.res] = g.N[g.res]
             /\ KeyOf(o.N[o.res]) = IndexKey(L + i)
             /\ o.N[o.res].value = val[L + i + 1]
        ELSE (i >= L \/ i < -L) => o.exc = "NonexistentInstance"

\* C5: on an array node of length L, n[i] for -L <= i < 0 is the same
\* entry as n[L+i], and n[i] raises NonexistentInstance for i >= L and for
\* i < -L.  Checked of the call just made and of every index the node on
\* which the caller works can be given.
C5_NegativeIndex ==
    /\ (last.op = "getitem" /\ IsArray(heap, nodes[last.x].value) /\ last.key.k = "i")
       => NegativeIndexOK(last.x, last.key.i, [exc |-> last.exc, res |-> last.res, N |-> nodes])
    /\ \A x \in Receivers :
          IsArray(heap, nodes[x].value)
          => \A i \in (0 - Len(CellOf(x).vals) - 2)..(Len(CellOf(x).vals) + 1) :
                 NegativeIndexOK(x, i, getitem(heap, nodes, x, IndexKey(i), now))

\* An array node was indexed from the tail.
C5_Witness ==
    /\ Returned("getitem")
    /\ IsArray(heap, nodes[last.x].value)
    /\ last.key.k = "i" /\ last.key.i < 0

\* What C6 says of x[key], o being the outcome of the call.
IndexByNameOK(x, key, o) ==
    IF IsObject(heap, nodes[x].value)
    THEN key.k = "n"
         => IF DictHas(CellOf(x), key.n)
            THEN /\ o.exc = "none"
                 /\ o.N[o.res].kind = "member"
                 /\ KeyOf(o.N[o.res]) = key
                 /\ o.N[o.res].parinst = x
                 /\ o.N[o.res].value = DictGet(CellOf(x), key.n)
                 /\ o.h[o.N[o.res].siblings.r].names = DictDel(CellOf(x), key.n).names
                 /\ o.h[o.N[o.res].siblings.r].vals = DictDel(CellOf(x), key.n).vals
            ELSE o.exc = "NonexistentInstance"
    ELSE ~IsStructured(heap, nodes[x].value) => o.exc = "InstanceValueError"

\* C6: indexing an object node by a name returns the ObjectMember of that
\* member, with all other members as siblings, or raises
\* NonexistentInstance when the value has no member of that name (whether
\* or not the schema has such a child; "a" does not match "m:a"); indexing
\* a scalar node raises InstanceValueError.  Checked of the call just made
\* and of every key the node on which the caller works can be given.
C6_IndexByName ==
    /\ last.op = "getitem"
       => IndexByNameOK(last.x, last.key,
                        [exc |-> last.exc, res |-> last.res, N |-> nodes, h |-> heap])
    /\ \A x \in Receivers : \A key \in KeyInputs :
          IndexByNameOK(x, key, getitem(heap, nodes, x, key, now))

\* C7: put_member(name, v) on an object node whose schema node has a data
\* child for name returns the member name with value v, and up() of it is
\* the receiver's value with name set to v and every other member as it
\* was; without such a data child it raises NonexistentSchemaNode and makes
\* no node; on a value that is no object it raises InstanceValueError.
C7_PutMember ==
    last.op = "put_member"
    => LET x == last.x
           name == last.key.n
       IN  IF ~IsObject(heap, nodes[x].value) THEN last.exc = "InstanceValueError"
           ELSE IF member_schema_node(nodes[x].sn, name) <= 0
           THEN last.exc = "NonexistentSchemaNode" /\ Len(snap) = x
           ELSE /\ last.exc = "none"
                /\ nodes[last.res].kind = "member"
                /\ KeyOf(nodes[last.res]) = NameKey(name)
                /\ nodes[last.res].value = last.v
                /\ LET u == up(heap, nodes, last.res, now)
                       want == DictSet(CellOf(x), name, last.v)
                   IN  /\ u.exc = "none"
                       /\ IsObject(u.h, ValueOf(u))
                       /\ LET got == u.h[ValueOf(u).r]
                          IN  /\ Len(got.names) = Len(want.names)
                              /\ \A j \in 1..Len(want.names) :
                                    /\ DictHas(got, want.names[j])
                                    /\ DictGet(got, want.names[j]) = want.vals[j]

\* Entry en has every member of keys with the value keys gives it.
EntryMatches(en, keys) ==
    /\ IsObject(heap, en)
    /\ \A j \in 1..Len(keys) :
          /\ DictHas(heap[en.r], keys[j][1])
          /\ DictGet(heap[en.r], keys[j][1]) = keys[j][2]

\* C8: look_up(keys) on a list node returns the matching entry of lowest
\* index, and raises NonexistentInstance if and only if no entry matches
\* all the keys, also when an entry that does not match lacks a key member.
C8_LookUp ==
    (last.op = "look_up" /\ IsArray(heap, nodes[last.x].value))
    => LET val == CellOf(last.x).vals
           M == {j \in 1..Len(val) : EntryMatches(val[j], last.keys)}
       IN  IF M = {} THEN last.exc = "NonexistentInstance"
           ELSE LET first == CHOOSE j \in M : \A k \in M : j <= k
                IN  /\ last.exc = "none"
                    /\ KeyOf(nodes[last.res]) = IndexKey(first - 1)
                    /\ nodes[last.res].value = val[first]

\* C9: e.insert_before(v) and e.insert_after(v) return an entry focused on
\* v; the array up() rebuilds from it is the array e.up() rebuilds with v
\* put right before (after) e's value; insert_before keeps the index
\* e.index, insert_after gives the index e.index + 1.
C9_Insert ==
    last.op \in {"insert_before", "insert_after"}
    => /\ last.exc = "none"
       /\ LET e == nodes[last.x]
              r == nodes[last.res]
              ue == up(heap, nodes, last.x, now)
              ur == up(heap, nodes, last.res, now)
              a == ue.h[ValueOf(ue).r].vals
              pos == Len(e.before) + 1
          IN  /\ r.kind = "entry"
              /\ r.value = last.v
              /\ ue.exc = "none" /\ ur.exc = "none"
              /\ ur.h[ValueOf(ur).r].vals =
                    IF last.op = "insert_before"
                    THEN SubSeq(a, 1, pos - 1) \o <<last.v>> \o SubSeq(a, pos, Len(a))
                    ELSE SubSeq(a, 1, pos) \o <<last.v>> \o SubSeq(a, pos + 1, Len(a))
              /\ KeyOf(r) = IF last.op = "insert_before" THEN KeyOf(e)
                            ELSE IndexKey(KeyOf(e).i + 1)

\* C10: the node returned by update, put_member, delete_item,
\* insert_before, insert_after or up() has a timestamp that is not before
\* the timestamp of the node the call was made on, and up() gives the
\* later of the receiver's and its parent's timestamps.
C10_TimestampsMonotone ==
    (/\ last.op \in {"update", "put_member", "delete_item", "insert_before",
                     "insert_after", "up"}
     /\ last.exc = "none")
    => /\ nodes[last.res].ts >= nodes[last.x].ts
       /\ last.op = "up"
          => nodes[last.res].ts = Max(nodes[last.x].ts, nodes[nodes[last.x].parinst].ts)

\* ================================================================== routes
\* The selectors of an instance route.  EntryValue and EntryKeys do not call
\* InstanceSelector.__init__: they have no key.
MemberName(name) == [sel |-> "MemberName", key |-> NameKey(name)]
EntryIndex(i) == [sel |-> "EntryIndex", key |-> IndexKey(i)]
EntryValue(v) == [sel |-> "EntryValue", value |-> v]
\* keys: the dictionary as a sequence of <<name, value>> in insertion order
EntryKeys(keys) == [sel |-> "EntryKeys", keys |-> keys]

\* The outcome of one peek_step: a value (NoVal is None) or an exception.
Stepped(res) == [exc |-> "none", res |-> res]
Thrown(e) == [exc |-> e, res |-> NoVal]

\* A scalar is a Python string.  s[i] for an index i in range: the string
\* of the one character at i, counted from the end when i is negative.
str_getitem(s, i) ==
    IF i < 0 THEN SubSeq(s, Len(s) + i + 1, Len(s) + i + 1) ELSE SubSeq(s, i + 1, i + 1)
\* Iterating over a string yields its characters, each a string.
str_iter(s) == [j \in 1..Len(s) |-> Scalar(SubSeq(s, j, j))]
\* str.index(sub): the position (from 1) of the first occurrence of sub at
\* or after j, 0 for ValueError.
RECURSIVE str_index(_, _, _)
str_index(s, sub, j) ==
    IF j + Len(sub) - 1 > Len(s) THEN 0
    ELSE IF SubSeq(s, j, j + Len(sub) - 1) = sub THEN j
    ELSE str_index(s, sub, j + 1)

\* InstanceSelector.peek_step (MemberName, EntryIndex): val[self.key] with
\* IndexError, KeyError and TypeError turned into None.  An integer key
\* indexes a string by character; a name on a string is a TypeError.
InstanceSelector_peek_step(h, sel, val) ==
    LET key == sel.key
    IN  IF IsObject(h, val)
        THEN IF key.k = "n" /\ DictHas(h[val.r], key.n)
             THEN Stepped(DictGet(h[val.r], key.n))
             ELSE Stepped(NoVal)
        ELSE IF IsArray(h, val)
        THEN IF key.k = "i" /\ PyInRange(h[val.r].vals, key.i)
             THEN Stepped(PyIndex(h[val.r].vals, key.i))
             ELSE Stepped(NoVal)
        ELSE IF key.k = "i" /\ PyInRange(val.s, key.i)
             THEN Stepped(Scalar(str_getitem(val.s, key.i)))
             ELSE Stepped(NoVal)

\* list.index: the position (from 1) of the first item equal to v, 0 for
\* ValueError.
RECURSIVE list_index(_, _, _, _)
list_index(h, vals, v, j) ==
    IF j > Len(vals) THEN 0
    ELSE IF PyEq(h, vals[j], h, v) THEN j
    ELSE list_index(h, vals, v, j + 1)

\* EntryValue.peek_step: arr[arr.index(self.value)], only ValueError is
\* caught.  A dict has no method index; str.index takes a string only,
\* looks for it as a substring, and arr[...] is then the one character at
\* the place where the substring starts.
EntryValue_peek_step(h, sel, arr) ==
    IF IsObject(h, arr) THEN Thrown("AttributeError")
    ELSE IF IsArray(h, arr)
    THEN LET j == list_index(h, h[arr.r].vals, sel.value, 1)
         IN  IF j = 0 THEN Stepped(NoVal) ELSE Stepped(h[arr.r].vals[j])
    ELSE IF sel.value.t # "s" THEN Thrown("TypeError")
    ELSE LET j == str_index(arr.s, sel.value.s, 1)
         IN  IF j = 0 THEN Stepped(NoVal)
             ELSE IF j > Len(arr.s) THEN Thrown("IndexError")
             ELSE Stepped(Scalar(str_getitem(arr.s, j - 1)))

\* The inner loop of EntryKeys.peek_step on entry en: "yes" when every key
\* matches, "no" at the first that differs, else the exception of en[k].
RECURSIVE peek_keys(_, _, _)
peek_keys(h, en, keys) ==
    IF keys = <<>> THEN "yes"
    ELSE IF ~IsObject(h, en) THEN "TypeError"
    ELSE IF ~DictHas(h[en.r], keys[1][1]) THEN "KeyError"
    ELSE IF ~PyEq(h, DictGet(h[en.r], keys[1][1]), h, keys[1][2]) THEN "no"
    ELSE peek_keys(h, en, Tail(keys))

\* The outer loop of EntryKeys.peek_step over the items ens of the iteration.
RECURSIVE peek_scan(_, _, _)
peek_scan(h, ens, keys) ==
    IF ens = <<>> THEN Stepped(NoVal)
    ELSE LET r == peek_keys(h, Head(ens), keys)
         IN  IF r = "yes" THEN Stepped(Head(ens))
             ELSE IF r = "no" THEN peek_scan(h, Tail(ens), keys)
             ELSE Thrown(r)

\* A sequence of characters (a member name, an argument) as the string it is
RECURSIVE NameText(_)
NameText(name) == IF name = <<>> THEN "" ELSE Head(name) \o NameText(Tail(name))

\* EntryKeys.peek_step: nothing is caught.  Iterating over a dict yields its
\* member names and over a string its characters, both strings.
EntryKeys_peek_step(h, sel, arr) ==
    IF IsArray(h, arr) THEN peek_scan(h, h[arr.r].vals, sel.keys)
    ELSE IF IsObject(h, arr)
    THEN peek_scan(h, [j \in 1..Len(h[arr.r].names) |-> Scalar(NameText(h[arr.r].names[j]))],
                   sel.keys)
    ELSE peek_scan(h, str_iter(arr.s), sel.keys)

peek_step(h, sel, val) ==
    IF sel.sel = "EntryValue" THEN EntryValue_peek_step(h, sel, val)
    ELSE IF sel.sel = "EntryKeys" THEN EntryKeys_peek_step(h, sel, val)
    ELSE InstanceSelector_peek_step(h, sel, val)

\* Longest route that is peeked along.
MaxRoute == 3

SelectorInputs ==
    {MemberName(Name_ma), MemberName(Name_ml), MemberName(Name_md), MemberName(Name_k),
     MemberName(Name_p),
     EntryIndex(-1), EntryIndex(0), EntryIndex(1), EntryIndex(3),
     EntryValue(Val_u), EntryValue(Val_uv),
     EntryKeys(<<>>), EntryKeys(<<<<Name_k, Val_v>>>>), EntryKeys(<<<<Name_p, Val_v>>>>)}
RouteInputs == UNION {[1..n -> SelectorInputs] : n \in 1..MaxRoute}

\* The zipper is at rest on the initial document.
Idle ==
    /\ heap = InitHeap(0)
    /\ nodes = <<RootNode_new(Ref(InitCells), 1, 0)>>
    /\ now = 0
    /\ last = [op |-> "init", x |-> 0, key |-> NoKey, v |-> NoVal, keys |-> <<>>,
               exc |-> "none", res |-> 1]
    /\ snap = <<Observed(InitHeap(0), RootNode_new(Ref(InitCells), 1, 0))>>

\* The initial document with the string "uv" for the value of "m:d".
PeekHeap ==
    [InitHeap(0) EXCEPT ![InitCells] =
        ObjCell(<<Name_ma, Name_ml, Name_md>>, <<Val_u, Ref(InitCells - 1), Val_uv>>, 0)]

\* InstanceNode.peek(iroute) on the root: val = self.value, then one
\* peek_step per selector until a step yields None.
InitPeek ==
    /\ heap = PeekHeap
    /\ nodes = <<RootNode_new(Ref(InitCells), 1, 0)>>
    /\ now = 0
    /\ last = [op |-> "init", x |-> 0, key |-> NoKey, v |-> NoVal, keys |-> <<>>,
               exc |-> "none", res |-> 1]
    /\ snap = <<Observed(PeekHeap, RootNode_new(Ref(InitCells), 1, 0))>>
    /\ \E r \in RouteInputs :
           run = [op |-> "peek", route |-> r, pos |-> 0, val |-> nodes[1].value,
                  exc |-> "none", done |-> FALSE]

PeekStep ==
    /\ run.op = "peek" /\ ~run.done /\ run.pos < Len(run.route)
    /\ LET o == peek_step(heap, run.route[run.pos + 1], run.val)
       IN  run' = [run EXCEPT !.pos = @ + 1, !.val = o.res, !.exc = o.exc,
                              !.done = (o.exc # "none" \/ o.res = NoVal)]
    /\ UNCHANGED <<heap, nodes, now, last, snap>>

PeekReturn ==
    /\ run.op = "peek" /\ ~run.done /\ run.pos = Len(run.route)
    /\ run' = [run EXCEPT !.done = TRUE]
    /\ UNCHANGED <<heap, nodes, now, last, snap>>

NextPeek == PeekStep \/ PeekReturn

SpecPeek == InitPeek /\ [][NextPeek]_vars

\* C11: peek_step never throws, for every selector kind and every value
\* (scalar, object, array, arrays whose entries lack a selected key
\* included): peek along any route ends with a value or None.
C11_PeekNeverThrows == run.exc = "none"

\* =========================================================== text and parser
\* The one element of a singleton set, and F applied to the value of v: a
\* result is worked out once and then named.
Only(S) == CHOOSE x \in S : TRUE
Bind(v, F(_)) == Only({F(x) : x \in {v}})

\* A string is the sequence of its characters.
Digits == <<"0", "1", "2", "3", "4", "5", "6", "7", "8", "9">>
IsDigit(c) == \E j \in 1..10 : Digits[j] = c
DigitVal(c) == (CHOOSE j \in 1..10 : Digits[j] = c) - 1
Letters ==
    {"a", "b", "c", "d", "e", "f", "g", "h", "i", "j", "k", "l", "m", "n", "o", "p", "q",
     "r", "s", "t", "u", "v", "w", "x", "y", "z", "C", "F"}
IsIdentStart(c) == c \in Letters \/ c = "_"
IsIdentChar(c) == IsIdentStart(c) \/ IsDigit(c) \/ c \in {"-", "."}

\* "{0:d}".format(n) and str(n) for an integer n
RECURSIVE NatStr(_)
NatStr(n) == IF n < 10 THEN <<Digits[n + 1]>> ELSE NatStr(n \div 10) \o <<Digits[(n % 10) + 1]>>
IntStr(n) == IF n < 0 THEN <<"-">> \o NatStr(-n) ELSE NatStr(n)

\* str.find(c, from): the offset (from 0) of the first c at or after offset
\* from, -1 when there is none
RECURSIVE StrFind(_, _, _)
StrFind(str, c, from) ==
    IF from >= Len(str) THEN -1
    ELSE IF str[from + 1] = c THEN from
    ELSE StrFind(str, c, from + 1)

\* str.split(c)
RECURSIVE StrSplit(_, _)
StrSplit(str, c) ==
    Bind(StrFind(str, c, 0), LAMBDA j :
        IF j < 0 THEN <<str>>
        ELSE <<SubSeq(str, 1, j)>> \o StrSplit(SubSeq(str, j + 2, Len(str)), c))

\* The parser (class Parser): the input text and the offset of the next
\* character.  A call ends in [exc, p, v]: the exception or "none", the
\* parser after the call and the value returned.
Parser(text) == [inp |-> text, off |-> 0]
POk(p, v) == [exc |-> "none", p |-> p, v |-> v]
PFail(p, e) == [exc |-> e, p |-> p, v |-> <<>>]
Advance(p, n) == [p EXCEPT !.off = @ + n]

at_end(p) == p.off >= Len(p.inp)
char(p, c) ==
    IF at_end(p) THEN PFail(p, "EndOfInput")
    ELSE IF p.inp[p.off + 1] = c THEN POk(Advance(p, 1), c)
    ELSE PFail(p, "UnexpectedInput")
one_of(p, chset) ==
    IF at_end(p) THEN PFail(p, "EndOfInput")
    ELSE IF p.inp[p.off + 1] \in chset THEN POk(Advance(p, 1), p.inp[p.off + 1])
    ELSE PFail(p, "UnexpectedInput")
remaining(p) == POk([p EXCEPT !.off = Len(p.inp)], SubSeq(p.inp, p.off + 1, Len(p.inp)))
up_to(p, term) ==
    Bind(StrFind(p.inp, term, p.off), LAMBDA end :
        IF end < 0 THEN PFail(p, "EndOfInput")
        ELSE POk([p EXCEPT !.off = end + 1], SubSeq(p.inp, p.off + 1, end)))
RECURSIVE skip_ws(_)
skip_ws(p) == IF ~at_end(p) /\ p.inp[p.off + 1] = " " THEN skip_ws(Advance(p, 1)) ELSE p

\* The offset after the digits (the identifier characters) that start at
\* offset j
RECURSIVE DigitsEnd(_, _), IdentEnd(_, _)
DigitsEnd(str, j) == IF j < Len(str) /\ IsDigit(str[j + 1]) THEN DigitsEnd(str, j + 1) ELSE j
IdentEnd(str, j) == IF j < Len(str) /\ IsIdentChar(str[j + 1]) THEN IdentEnd(str, j + 1) ELSE j

RECURSIVE DigitsVal(_, _)
DigitsVal(ds, acc) ==
    IF ds = <<>> THEN acc ELSE DigitsVal(Tail(ds), 10 * acc + DigitVal(Head(ds)))
unsigned_integer(p) ==
    Bind(DigitsEnd(p.inp, p.off), LAMBDA end :
        IF end = p.off THEN PFail(p, "UnexpectedInput")
        ELSE POk([p EXCEPT !.off = end], DigitsVal(SubSeq(p.inp, p.off + 1, end), 0)))
yang_identifier(p) ==
    IF at_end(p) \/ ~IsIdentStart(p.inp[p.off + 1]) THEN PFail(p, "UnexpectedInput")
    ELSE Bind(IdentEnd(p.inp, p.off), LAMBDA end :
             POk([p EXCEPT !.off = end], SubSeq(p.inp, p.off + 1, end)))
\* prefixed_name returns (name, prefix); the prefix is None (<<>>) when the
\* identifier is not followed by a colon.
prefixed_name(p) ==
    Bind(yang_identifier(p), LAMBDA i1 :
        IF i1.exc # "none" THEN i1
        ELSE IF at_end(i1.p) \/ i1.p.inp[i1.p.off + 1] # ":"
        THEN POk(i1.p, [name |-> i1.v, ns |-> <<>>])
        ELSE Bind(yang_identifier(Advance(i1.p, 1)), LAMBDA i2 :
                 IF i2.exc # "none" THEN i2
                 ELSE POk(i2.p, [name |-> i2.v, ns |-> i1.v])))

\* urllib.parse.unquote: %XX becomes the character with that code.  The
\* codes that occur in the inputs are listed; any other % stays.
PctDecode(a, b) ==
    IF a = "2" /\ b \in {"C", "c"} THEN <<",">>
    ELSE IF a = "2" /\ b \in {"F", "f"} THEN <<"/">>
    ELSE IF a = "2" /\ b = "5" THEN <<"%">>
    ELSE <<>>
RECURSIVE unquote(_)
unquote(str) ==
    IF str = <<>> THEN <<>>
    ELSE IF str[1] = "%" /\ Len(str) >= 3 /\ PctDecode(str[2], str[3]) # <<>>
    THEN PctDecode(str[2], str[3]) \o unquote(SubSeq(str, 4, Len(str)))
    ELSE <<str[1]>> \o unquote(Tail(str))

\* DataType.parse_value of the string type, the type of every leaf and
\* leaf-list of the schema tree: the text is the value.
parse_value(text) == Scalar(text)

\* ============================================================= path parsers
\* SchemaNode.qname: the local name, qualified with the namespace when it
\* differs from the parent's.
qname(sn) ==
    IF SchemaTree[sn].ns = SchemaTree[SchemaTree[sn].parent].ns THEN SchemaTree[sn].name
    ELSE SchemaTree[sn].ns \o <<":">> \o SchemaTree[sn].name
\* DataNode.iname(): the instance name of a data node
iname(sn) == qname(sn)

IsTerminal(sn) == SchemaTree[sn].kind \in {"leaf", "leaflist"}
IsLeafList(sn) == SchemaTree[sn].kind = "leaflist"

\* sel[name] = val on a dictionary kept as a sequence of <<name, value>>
SelPut(sel, name, val) ==
    IF \E j \in 1..Len(sel) : sel[j][1] = name
    THEN [j \in 1..Len(sel) |-> IF sel[j][1] = name THEN <<name, val>> ELSE sel[j]]
    ELSE Append(sel, <<name, val>>)

\* InstancePathParser._member_name: (MemberName, schema node) of the child.
member_name(p, sn) ==
    Bind(prefixed_name(p), LAMBDA pn :
        IF pn.exc # "none" THEN pn
        ELSE IF ~IsInternalNode(sn) THEN PFail(pn.p, "AttributeError")
        ELSE Bind(get_data_child(sn, pn.v.name,
                                 IF pn.v.ns # <<>> THEN pn.v.ns ELSE SchemaTree[sn].ns),
                  LAMBDA cn :
                      IF cn = 0 THEN PFail(pn.p, "TypeError")
                      ELSE POk(pn.p, [mnam |-> MemberName(iname(cn)), cn |-> cn])))

\* InstanceIdParser._get_value: = 'text' ] is read first, then the type of
\* tn is asked to parse the text; tn is 0 for None.  Only a DataNode has
\* the property type, which raises BadSchemaNodeType unless the node is
\* terminal.
get_value(p, tn) ==
    Bind(char(skip_ws(p), "="), LAMBDA c1 :
      IF c1.exc # "none" THEN c1
      ELSE Bind(one_of(skip_ws(c1.p), {"'", "\""}), LAMBDA qt :
        IF qt.exc # "none" THEN qt
        ELSE Bind(up_to(qt.p, qt.v), LAMBDA val :
          IF val.exc # "none" THEN val
          ELSE Bind(char(skip_ws(val.p), "]"), LAMBDA c2 :
            IF c2.exc # "none" THEN c2
            ELSE IF tn = 0 THEN PFail(c2.p, "AttributeError")
            ELSE IF ~IsDataNode(tn) THEN PFail(c2.p, "AttributeError")
            ELSE IF ~IsTerminal(tn) THEN PFail(c2.p, "BadSchemaNodeType")
            ELSE POk(c2.p, parse_value(val.v))))))

\* InstanceIdParser._key_predicates, from the name of a predicate on; sel
\* holds the keys read so far.
RECURSIVE key_predicates(_, _, _)
key_predicates(p, sn, sel) ==
    Bind(prefixed_name(p), LAMBDA pn :
      IF pn.exc # "none" THEN pn
      ELSE IF ~IsInternalNode(sn) THEN PFail(pn.p, "AttributeError")
      ELSE Bind(get_data_child(sn, pn.v.name, pn.v.ns), LAMBDA knod :
        Bind(get_value(pn.p, knod), LAMBDA gv :
          IF gv.exc # "none" THEN gv
          ELSE Bind(SelPut(sel, iname(knod), gv.v), LAMBDA sel2 :
            IF at_end(gv.p) \/ gv.p.inp[gv.p.off + 1] # "["
            THEN POk(gv.p, EntryKeys(sel2))
            ELSE key_predicates(skip_ws(Advance(gv.p, 1)), sn, sel2)))))

\* The value predicate of a leaf-list entry, after "[": . = 'text' ]
value_predicate(p, cn) ==
    Bind(char(p, "."), LAMBDA c3 :
      IF c3.exc # "none" THEN c3
      ELSE Bind(get_value(c3.p, cn), LAMBDA gv :
        IF gv.exc # "none" THEN gv
        ELSE POk(gv.p, EntryValue(gv.v))))

\* As iid_predicate, but the index of a positional predicate is taken as
\* written.
iid_predicate_asWritten(p, cn) ==
    IF at_end(p) THEN PFail(p, "EndOfInput")
    ELSE IF IsDigit(p.inp[p.off + 1])
    THEN Bind(unsigned_integer(p), LAMBDA ui :
           Bind(char(skip_ws(ui.p), "]"), LAMBDA c2 :
             IF c2.exc # "none" THEN c2
             ELSE POk(c2.p, EntryIndex(ui.v))))
    ELSE IF IsLeafList(cn) THEN value_predicate(p, cn)
    ELSE key_predicates(p, cn, <<>>)

\* InstanceIdParser.parse, the predicate after "[" and white space: a
\* position, the value of a leaf-list entry or the keys of a list entry.
iid_predicate(p, cn) ==
    IF at_end(p) THEN PFail(p, "EndOfInput")
    ELSE IF IsDigit(p.inp[p.off + 1])
    THEN Bind(unsigned_integer(p), LAMBDA ui :
           IF ui.v - 1 < 0 THEN PFail(ui.p, "UnexpectedInput")
           ELSE Bind(char(skip_ws(ui.p), "]"), LAMBDA c2 :
                  IF c2.exc # "none" THEN c2
                  ELSE POk(c2.p, EntryIndex(ui.v - 1))))
    ELSE IF IsLeafList(cn) THEN value_predicate(p, cn)
    ELSE key_predicates(p, cn, <<>>)

\* InstanceIdParser.parse, one turn of its loop and those after it.
RECURSIVE iid_loop(_, _, _)
iid_loop(p, sn, res) ==
    Bind(char(p, "/"), LAMBDA c1 :
      IF c1.exc # "none" THEN c1
      ELSE Bind(member_name(c1.p, sn), LAMBDA mn :
        IF mn.exc # "none" THEN mn
        ELSE Bind(Append(res, mn.v.mnam), LAMBDA res1 :
          IF at_end(mn.p) THEN POk(mn.p, res1)
          ELSE IF mn.p.inp[mn.p.off + 1] = "["
          THEN Bind(iid_predicate(skip_ws(Advance(mn.p, 1)), mn.v.cn), LAMBDA pr :
                 IF pr.exc # "none" THEN pr
                 ELSE IF at_end(pr.p) THEN POk(pr.p, Append(res1, pr.v))
                 ELSE iid_loop(pr.p, mn.v.cn, Append(res1, pr.v)))
          ELSE iid_loop(mn.p, mn.v.cn, res1))))

\* InstanceIdParser(text).parse(); Context.schema is the schema root.
InstanceIdParser_parse(text) == iid_loop(Parser(text), 1, <<>>)

\* The EntryKeys of the pieces ks, the j-th piece for the j-th key of sn.
RECURSIVE key_values_loop(_, _, _, _, _)
key_values_loop(p, sn, ks, j, sel) ==
    IF j > Len(ks) THEN POk(p, EntryKeys(sel))
    ELSE Bind(get_data_child(sn, SchemaTree[sn].keys[j][1], SchemaTree[sn].keys[j][2]),
              LAMBDA knod :
                  IF knod = 0 THEN PFail(p, "AttributeError")
                  ELSE IF ~IsDataNode(knod) THEN PFail(p, "AttributeError")
                  ELSE IF ~IsTerminal(knod) THEN PFail(p, "BadSchemaNodeType")
                  ELSE Bind(SelPut(sel, iname(knod), parse_value(unquote(ks[j]))),
                            LAMBDA sel2 : key_values_loop(p, sn, ks, j + 1, sel2)))

\* The text of the keys: up to the next slash, which is passed over, or all
\* that remains.
key_text(p) ==
    Bind(up_to(p, "/"), LAMBDA ut : IF ut.exc = "EndOfInput" THEN remaining(p) ELSE ut)

\* As key_values, but the text is decoded before it is split.
key_values_decodeFirst(p, sn) ==
    Bind(key_text(p), LAMBDA keys :
      IF keys.v = <<>> THEN PFail(keys.p, "UnexpectedInput")
      ELSE IF IsLeafList(sn) THEN POk(keys.p, EntryValue(parse_value(unquote(keys.v))))
      ELSE Bind(StrSplit(unquote(keys.v), ","), LAMBDA ks :
        IF SchemaTree[sn].kind # "list" THEN PFail(keys.p, "NameError")
        ELSE IF Len(ks) # Len(SchemaTree[sn].keys) THEN PFail(keys.p, "UnexpectedInput")
        ELSE key_values_loop(keys.p, sn, ks, 1, <<>>)))

\* ResourceIdParser._key_values: the text up to the next slash is the value
\* of a leaf-list entry or the comma-separated keys of a list entry.
key_values(p, sn) ==
    Bind(key_text(p), LAMBDA keys :
      IF keys.v = <<>> THEN PFail(keys.p, "UnexpectedInput")
      ELSE IF IsLeafList(sn) THEN POk(keys.p, EntryValue(parse_value(unquote(keys.v))))
      ELSE Bind(StrSplit(keys.v, ","), LAMBDA ks :
        IF SchemaTree[sn].kind # "list" THEN PFail(keys.p, "NameError")
        ELSE IF Len(ks) # Len(SchemaTree[sn].keys) THEN PFail(keys.p, "UnexpectedInput")
        ELSE key_values_loop(keys.p, sn, ks, 1, <<>>)))

\* ResourceIdParser.parse, one turn of its loop and those after it.
RECURSIVE rid_loop(_, _, _)
rid_loop(p, sn, res) ==
    Bind(member_name(p, sn), LAMBDA mn :
      IF mn.exc # "none" THEN mn
      ELSE Bind(Append(res, mn.v.mnam), LAMBDA res1 :
        Bind(one_of(mn.p, {"/", "="}), LAMBDA nx :
          IF nx.exc = "EndOfInput" THEN POk(mn.p, res1)
          ELSE IF nx.exc # "none" THEN nx
          ELSE IF nx.v = "="
          THEN Bind(key_values(nx.p, mn.v.cn), LAMBDA kv :
                 IF kv.exc # "none" THEN kv
                 ELSE IF at_end(kv.p) THEN POk(kv.p, Append(res1, kv.v))
                 ELSE rid_loop(kv.p, mn.v.cn, Append(res1, kv.v)))
          ELSE rid_loop(nx.p, mn.v.cn, res1))))

\* ResourceIdParser(text).parse()
ResourceIdParser_parse(text) ==
    IF text = <<>> THEN PFail(Parser(text), "EndOfInput")
    ELSE rid_loop(IF text[1] = "/" THEN Advance(Parser(text), 1) ELSE Parser(text), 1, <<>>)

\* repr() of a Python string: in single quotes, in double quotes when it
\* holds a single quote and no double quote; a quote or a backslash that
\* would end or garble it is escaped.
RECURSIVE Escaped(_, _)
Escaped(str, q) ==
    IF str = <<>> THEN <<>>
    ELSE (IF str[1] \in {q, "\\"} THEN <<"\\", str[1]>> ELSE <<str[1]>>) \o Escaped(Tail(str), q)
PyRepr(str) ==
    LET hasS == \E j \in 1..Len(str) : str[j] = "'"
        hasD == \E j \in 1..Len(str) : str[j] = "\""
        q == IF hasS /\ ~hasD THEN "\"" ELSE "'"
    IN  <<q>> \o Escaped(str, q) \o <<q>>

\* EntryKeys.__str__
RECURSIVE EntryKeys_str(_)
EntryKeys_str(keys) ==
    IF keys = <<>> THEN <<>>
    ELSE <<"[">> \o keys[1][1] \o <<"=">> \o PyRepr(keys[1][2].s) \o <<"]">>
         \o EntryKeys_str(Tail(keys))

\* __str__ of a selector
Selector_str(sel) ==
    IF sel.sel = "MemberName" THEN <<"/">> \o sel.key.n
    ELSE IF sel.sel = "EntryIndex" THEN <<"[">> \o IntStr(sel.key.i) \o <<"]">>
    ELSE IF sel.sel = "EntryValue" THEN <<"[", ".", "=">> \o sel.value.s \o <<"]">>
    ELSE EntryKeys_str(sel.keys)

\* InstanceRoute.__str__
RECURSIVE InstanceRoute_str(_)
InstanceRoute_str(route) ==
    IF route = <<>> THEN <<>>
    ELSE Selector_str(Head(route)) \o InstanceRoute_str(Tail(route))

\* The outcome of ==: the truth value or the exception.
Equal(b) == [exc |-> "none", v |-> b]
EqFail(e) == [exc |-> e, v |-> FALSE]
\* __eq__ of selectors: a is the left operand, whose class decides which
\* attribute of both is read (key, value or keys).  EntryValue and
\* EntryKeys have no key, and only EntryValue has value, only EntryKeys
\* keys: reading an attribute the other selector lacks is an
\* AttributeError.  Two dictionaries are equal when they hold the same
\* items, in any order.
Selector_eq(a, b) ==
    IF a.sel = "EntryValue"
    THEN IF b.sel = "EntryValue" THEN Equal(a.value = b.value) ELSE EqFail("AttributeError")
    ELSE IF a.sel = "EntryKeys"
    THEN IF b.sel = "EntryKeys"
         THEN Equal({a.keys[j] : j \in 1..Len(a.keys)} = {b.keys[j] : j \in 1..Len(b.keys)})
         ELSE EqFail("AttributeError")
    ELSE IF b.sel \in {"MemberName", "EntryIndex"} THEN Equal(a.key = b.key)
    ELSE EqFail("AttributeError")
\* == of two routes (lists): False at once when the lengths differ, else
\* the items are compared in order up to the first pair that is not equal.
RECURSIVE InstanceRoute_eq(_, _)
InstanceRoute_eq(r1, r2) ==
    IF Len(r1) # Len(r2) THEN Equal(FALSE)
    ELSE IF r1 = <<>> THEN Equal(TRUE)
    ELSE IF Selector_eq(Head(r1), Head(r2)).exc # "none" THEN Selector_eq(Head(r1), Head(r2))
    ELSE IF ~Selector_eq(Head(r1), Head(r2)).v THEN Equal(FALSE)
    ELSE InstanceRoute_eq(Tail(r1), Tail(r2))

\* ------------------------------------------------------- inputs of the parsers
\* A path text is a member name, a predicate or key part, and a tail.  Each
\* part is given with what it stands for: the schema node of the member (0
\* when no schema node has the name), the kind of the predicate with its
\* position n, its value or its keys as <<name, value>> (after a key part
\* "=..." as <<piece, decoded piece>>), and the schema nodes under which
\* the name of the tail is that of a data child.
MemInputs ==
    {[text |-> <<"/", "m", ":", "l">>, node |-> 3, iname |-> <<"m", ":", "l">>],
     [text |-> <<"/", "m", ":", "s">>, node |-> 9, iname |-> <<"m", ":", "s">>],
     [text |-> <<"/", "m", ":", "t">>, node |-> 10, iname |-> <<"m", ":", "t">>],
     [text |-> <<"/", "m", ":", "a">>, node |-> 2, iname |-> <<"m", ":", "a">>],
     [text |-> <<"/", "m", ":", "c">>, node |-> 13, iname |-> <<"m", ":", "c">>],
     [text |-> <<"/", "m", ":", "q">>, node |-> 0, iname |-> <<>>],
     [text |-> <<"/", "q", ":", "l">>, node |-> 0, iname |-> <<>>],
     [text |-> <<"/", "l">>, node |-> 0, iname |-> <<>>]}
PredInputs ==
    {[text |-> <<>>, kind |-> "none", n |-> 0, value |-> Scalar(<<>>), keys |-> <<>>, known |-> TRUE],
     [text |-> <<"[", "1", "]">>, kind |-> "pos", n |-> 1, value |-> Scalar(<<>>), keys |-> <<>>, known |-> TRUE],
     [text |-> <<"[", "2", "]">>, kind |-> "pos", n |-> 2, value |-> Scalar(<<>>), keys |-> <<>>, known |-> TRUE],
     [text |-> <<"[", "0", "]">>, kind |-> "pos", n |-> 0, value |-> Scalar(<<>>), keys |-> <<>>, known |-> TRUE],
     [text |-> <<"[", "1", "0", "]">>, kind |-> "pos", n |-> 10, value |-> Scalar(<<>>), keys |-> <<>>, known |-> TRUE],
     [text |-> <<"[", " ", "3", " ", "]">>, kind |-> "pos", n |-> 3, value |-> Scalar(<<>>), keys |-> <<>>, known |-> TRUE],
     [text |-> <<"[", ".", "=", "'", "u", "'", "]">>, kind |-> "val", n |-> 0, value |-> Scalar(<<"u">>), keys |-> <<>>, known |-> TRUE],
     [text |-> <<"[", ".", " ", "=", " ", "\"", "v", "\"", "]">>, kind |-> "val", n |-> 0, value |-> Scalar(<<"v">>), keys |-> <<>>, known |-> TRUE],
     [text |-> <<"[", "k", "=", "'", "u", "'", "]">>, kind |-> "keys", n |-> 0, value |-> Scalar(<<>>), keys |-> <<<<<<"k">>, Scalar(<<"u">>)>>>>, known |-> TRUE],
     [text |-> <<"[", "k", "=", "'", "u", "'", "]", "[", "p", "=", "'", "v", "'", "]">>, kind |-> "keys", n |-> 0, value |-> Scalar(<<>>), keys |-> <<<<<<"k">>, Scalar(<<"u">>)>>, <<<<"p">>, Scalar(<<"v">>)>>>>, known |-> TRUE],
     [text |-> <<"[", "m", ":", "k", " ", "=", " ", "'", "v", "'", "]">>, kind |-> "keys", n |-> 0, value |-> Scalar(<<>>), keys |-> <<<<<<"k">>, Scalar(<<"v">>)>>>>, known |-> TRUE],
     [text |-> <<"[", "q", "=", "'", "u", "'", "]">>, kind |-> "keys", n |-> 0, value |-> Scalar(<<>>), keys |-> <<<<<<"q">>, Scalar(<<"u">>)>>>>, known |-> FALSE],
     [text |-> <<"[", "k", "=", "u", "]">>, kind |-> "bad", n |-> 0, value |-> Scalar(<<>>), keys |-> <<>>, known |-> TRUE]}
KeyPartInputs ==
    {[text |-> <<"=", "u">>, kind |-> "kv", n |-> 1, value |-> Scalar(<<>>), keys |-> <<<<<<"u">>, Scalar(<<"u">>)>>>>, known |-> TRUE],
     [text |-> <<"=", "u", ",", "v">>, kind |-> "kv", n |-> 2, value |-> Scalar(<<>>), keys |-> <<<<<<"u">>, Scalar(<<"u">>)>>, <<<<"v">>, Scalar(<<"v">>)>>>>, known |-> TRUE],
     [text |-> <<"=", "u", "%", "2", "C", "v">>, kind |-> "kv", n |-> 1, value |-> Scalar(<<>>), keys |-> <<<<<<"u", "%", "2", "C", "v">>, Scalar(<<"u", ",", "v">>)>>>>, known |-> TRUE],
     [text |-> <<"=", "u", "%", "2", "C", "v", ",", "v">>, kind |-> "kv", n |-> 2, value |-> Scalar(<<>>), keys |-> <<<<<<"u", "%", "2", "C", "v">>, Scalar(<<"u", ",", "v">>)>>, <<<<"v">>, Scalar(<<"v">>)>>>>, known |-> TRUE],
     [text |-> <<"=", "w", "%", "2", "F", "s">>, kind |-> "kv", n |-> 1, value |-> Scalar(<<>>), keys |-> <<<<<<"w", "%", "2", "F", "s">>, Scalar(<<"w", "/", "s">>)>>>>, known |-> TRUE],
     [text |-> <<"=", "u", ",", "v", ",", "u">>, kind |-> "kv", n |-> 3, value |-> Scalar(<<>>), keys |-> <<<<<<"u">>, Scalar(<<"u">>)>>, <<<<"v">>, Scalar(<<"v">>)>>, <<<<"u">>, Scalar(<<"u">>)>>>>, known |-> TRUE],
     [text |-> <<"=", "u", ",">>, kind |-> "kv", n |-> 2, value |-> Scalar(<<>>), keys |-> <<<<<<"u">>, Scalar(<<"u">>)>>, <<<<>>, Scalar(<<>>)>>>>, known |-> TRUE],
     [text |-> <<"=">>, kind |-> "kv", n |-> 0, value |-> Scalar(<<>>), keys |-> <<>>, known |-> TRUE]}
TailInputs ==
    {[text |-> <<>>, under |-> {}, iname |-> <<>>],
     [text |-> <<"/", "k">>, under |-> {3, 10}, iname |-> <<"k">>],
     [text |-> <<"/", "p">>, under |-> {3, 10}, iname |-> <<"p">>],
     [text |-> <<"/", "q">>, under |-> {}, iname |-> <<>>],
     [text |-> <<"/", "y">>, under |-> {13}, iname |-> <<"y">>],
     [text |-> <<"/", "n", ":", "x">>, under |-> {13}, iname |-> <<"n", ":", "x">>]}

Text_u == <<"u">>
Text_v == <<"v">>
Text_aqb == <<"a", "'", "b">>
\* Routes to nodes that the schema allows: member names, each with or
\* without an entry selector that suits its schema node.
EntrySelInputs(sn) ==
    IF sn = 9 THEN {<<>>, <<EntryIndex(0)>>, <<EntryIndex(1)>>, <<EntryValue(Scalar(Text_u))>>}
    ELSE IF sn = 3
    THEN {<<>>, <<EntryIndex(0)>>, <<EntryIndex(2)>>, <<EntryIndex(10)>>,
          <<EntryKeys(<<<<Name_k, Scalar(Text_u)>>>>)>>,
          <<EntryKeys(<<<<Name_k, Scalar(Text_aqb)>>>>)>>}
    ELSE IF sn = 10
    THEN {<<>>, <<EntryIndex(1)>>,
          <<EntryKeys(<<<<Name_k, Scalar(Text_u)>>, <<Name_p, Scalar(Text_v)>>>>)>>,
          <<EntryKeys(<<<<Name_p, Scalar(Text_v)>>, <<Name_k, Scalar(Text_u)>>>>)>>}
    ELSE {<<>>}
PathRouteInputs ==
    UNION {{<<MemberName(m.iname)>> \o es \o
                (IF t.text = <<>> THEN <<>> ELSE <<MemberName(t.iname)>>) :
                    es \in EntrySelInputs(m.node),
                    t \in {tt \in TailInputs : tt.text = <<>> \/ m.node \in tt.under}} :
           m \in {mm \in MemInputs : mm.node # 0}}

\* A parser is given a text (InitPath draws it, or the route that
\* StrRoute writes out), and ends with a route or an exception.
InitPath ==
    /\ Idle
    /\ \/ \E m \in MemInputs, pr \in PredInputs \cup KeyPartInputs, t \in TailInputs :
              run = [op |-> "text", src |-> "text", mem |-> m, pred |-> pr, tail |-> t,
                     route |-> <<>>, text |-> m.text \o pr.text \o t.text, out |-> POk(Parser(<<>>), <<>>)]
       \/ \E r \in PathRouteInputs :
              run = [op |-> "route", src |-> "route", mem |-> <<>>, pred |-> <<>>, tail |-> <<>>,
                     route |-> r, text |-> <<>>, out |-> POk(Parser(<<>>), <<>>)]

\* str(route)
StrRoute ==
    /\ run.op = "route"
    /\ run' = [run EXCEPT !.op = "str", !.src = "str", !.text = InstanceRoute_str(run.route)]
    /\ UNCHANGED <<heap, nodes, now, last, snap>>

\* InstanceIdParser(text).parse()
ParseInstanceId ==
    /\ run.op \in {"text", "str"}
    /\ run' = [run EXCEPT !.op = "iid", !.out = InstanceIdParser_parse(run.text)]
    /\ UNCHANGED <<heap, nodes, now, last, snap>>

\* ResourceIdParser(text).parse()
ParseResourceId ==
    /\ run.op = "text"
    /\ run' = [run EXCEPT !.op = "rid", !.out = ResourceIdParser_parse(run.text)]
    /\ UNCHANGED <<heap, nodes, now, last, snap>>

NextPath == StrRoute \/ ParseInstanceId \/ ParseResourceId

SpecPath == InitPath /\ [][NextPath]_vars

\* ------------------------------------------------------ claims on the parsers
\* A parser has ended on a text that InitPath drew.
Parsed(op) == run.op = op /\ run.src = "text"
\* The selector of the tail, if there is one
TailSel(t) == IF t.text = <<>> THEN <<>> ELSE <<MemberName(t.iname)>>
\* The tail is empty or names a data child of the member's schema node.
TailFits == run.tail.text = <<>> \/ run.mem.node \in run.tail.under
\* The parser returned the route: the member, selector sel, the tail.
ParsedTo(sel) ==
    /\ run.out.exc = "none"
    /\ InstanceRoute_eq(run.out.v, <<MemberName(run.mem.iname), sel>> \o TailSel(run.tail)) = Equal(TRUE)

\* C12: for every route p to a node that the schema allows,
\* InstanceIdParser.parse(str(p)) returns a route equal to p, selector by
\* selector.
C12_RouteRoundTrip ==
    (run.op = "iid" /\ run.src = "str") =>
        (run.out.exc = "none" /\ InstanceRoute_eq(run.out.v, run.route) = Equal(TRUE))

\* C13: in an instance identifier a positional predicate [n] after a list
\* or leaf-list member is 1-based: n >= 1 yields EntryIndex(n - 1) and [0]
\* is rejected with UnexpectedInput; [.='v'] after a leaf-list yields
\* EntryValue(parse_value(v)); one or more [name='v'] after a list yield a
\* single EntryKeys from the keys' instance names to their parsed values.
C13_IidPredicates ==
    (Parsed("iid") /\ run.mem.node \in {3, 9, 10} /\ TailFits) =>
        /\ (run.pred.kind = "pos" /\ run.pred.n >= 1) => ParsedTo(EntryIndex(run.pred.n - 1))
        /\ (run.pred.kind = "pos" /\ run.pred.n = 0) => run.out.exc = "UnexpectedInput"
        /\ (run.pred.kind = "val" /\ run.mem.node = 9) => ParsedTo(EntryValue(run.pred.value))
        /\ (run.pred.kind = "keys" /\ run.pred.known /\ run.mem.node \in {3, 10}) =>
               ParsedTo(EntryKeys(run.pred.keys))

\* /m:l[2]/k was parsed to m:l, entry 1, k; /m:s[. = "v"] and
\* /m:t[k='u'][p='v'] were parsed.
C13_Witness ==
    /\ Parsed("iid") /\ run.out.exc = "none"
    /\ \/ run.mem.node = 3 /\ run.pred.kind = "pos" /\ run.pred.n = 2 /\ Len(run.out.v) = 3
       \/ run.mem.node = 9 /\ run.pred.kind = "val" /\ run.pred.value = Scalar(Text_v)
       \/ run.mem.node = 10 /\ run.pred.kind = "keys" /\ Len(run.pred.keys) = 2

\* C14: in both path parsers every name that resolves to no schema node
\* raises NonexistentSchemaNode: member names, and the key names inside
\* the key predicates of an instance identifier.
C14_UnknownNames ==
    (Parsed("iid") \/ Parsed("rid")) =>
        /\ run.mem.node = 0 => run.out.exc = "NonexistentSchemaNode"
        /\ (run.mem.node # 0 /\ run.pred.kind = "none" /\ ~TailFits) =>
               run.out.exc = "NonexistentSchemaNode"
        /\ (Parsed("iid") /\ run.mem.node \in {3, 10} /\ run.pred.kind = "keys" /\ ~run.pred.known) =>
               run.out.exc = "NonexistentSchemaNode"

\* The keys of a list entry as the resource identifier gives them: the j-th
\* declared key of the list with the j-th piece, decoded.
KeysOfPieces(sn, pieces) ==
    [j \in 1..Len(pieces) |-> <<SchemaTree[sn].keys[j][1], pieces[j][2]>>]

\* C15: in a resource identifier, the text after "=" that follows a list
\* member is split on literal commas first; unless the number of pieces is
\* the number of declared keys, and when the text is empty, parsing fails
\* with UnexpectedInput; otherwise the result is EntryKeys from the j-th
\* declared key to the j-th piece, percent-decoded after the split, so that
\* an encoded comma or slash neither separates keys nor ends the segment.
C15_RidKeys ==
    (Parsed("rid") /\ run.mem.node \in {3, 10} /\ run.pred.kind = "kv" /\ TailFits) =>
        IF run.pred.n # Len(SchemaTree[run.mem.node].keys)
        THEN run.out.exc = "UnexpectedInput"
        ELSE ParsedTo(EntryKeys(KeysOfPieces(run.mem.node, run.pred.keys)))

\* /m:t=u%2Cv,v and /m:l=w%2Fs were parsed; /m:l= and /m:l=u,v were
\* rejected.
C15_Witness ==
    /\ Parsed("rid") /\ run.pred.kind = "kv"
    /\ \/ run.mem.node = 10 /\ run.pred.text = <<"=", "u", "%", "2", "C", "v", ",", "v">> /\ run.out.exc = "none"
       \/ run.mem.node = 3 /\ run.pred.text = <<"=", "w", "%", "2", "F", "s">> /\ run.out.exc = "none"

\* ================================================================= from_raw
\* A raw value as the JSON decoder yields it: a string, a dictionary (the
\* sequence of its <<key, raw value>> pairs in the order of the document,
\* the keys distinct) or a list.
RStr(s) == [t |-> "s", s |-> s]
RObj(m) == [t |-> "o", m |-> m]
RArr(e) == [t |-> "a", e |-> e]

\* for x in val: the keys of a dictionary, the entries of a list, the
\* characters of a string.
PyIter(val) ==
    IF val.t = "o" THEN [j \in 1..Len(val.m) |-> RStr(val.m[j][1])]
    ELSE IF val.t = "a" THEN val.e
    ELSE [j \in 1..Len(val.s) |-> RStr(<<val.s[j]>>)]

\* val[qn] on a dictionary that has the key qn
RawGet(val, qn) == val.m[CHOOSE j \in 1..Len(val.m) : val.m[j][1] = qn][2]

\* The cooked values: an object keeps its members as <<name, value>> pairs
\* and, like an array, the time stamp it was given.
ObjectValue(m, ts) == [t |-> "O", m |-> m, ts |-> ts]
ArrayValue(e, ts) == [t |-> "A", e |-> e, ts |-> ts]

\* The end of a from_raw call: the value it returned or the exception.
ROk(v) == [exc |-> "none", v |-> v]
RFail(e) == [exc |-> e, v |-> RStr(<<>>)]

\* TerminalNode.from_raw returns the raw value as it is.
TerminalNode_from_raw(val) == ROk(val)

RECURSIVE from_raw(_, _, _, _), obj_loop(_, _, _, _, _, _), arr_loop(_, _, _, _, _)
RECURSIVE InternalNode_from_raw(_, _, _, _)
\* The loop of InternalNode.from_raw over the keys qns still to come; ns is
\* the loop-wide variable that a prefixed key overwrites.  A key that is
\* not a string has no partition(), a missing child (None) has no from_raw,
\* and val[qn] needs a dictionary.
obj_loop(sn, val, qns, ns, res, t) ==
    IF qns = <<>> THEN ROk(ObjectValue(res, t))
    ELSE IF Head(qns).t # "s" THEN RFail("AttributeError")
    ELSE Bind(Partition(Head(qns).s), LAMBDA pt :
         Bind(IF pt[2] # <<>> THEN pt[1] ELSE ns, LAMBDA ns1 :
         Bind(get_data_child(sn, IF pt[2] # <<>> THEN pt[3] ELSE pt[1], ns1), LAMBDA cn :
             IF cn = 0 THEN RFail("AttributeError")
             ELSE IF val.t # "o" THEN RFail("TypeError")
             ELSE Bind(from_raw(cn, RawGet(val, Head(qns).s), <<>>, t), LAMBDA sub :
                      IF sub.exc # "none" THEN sub
                      ELSE obj_loop(sn, val, Tail(qns), ns1,
                                    SelPut(res, qname(cn), sub.v), t)))))
InternalNode_from_raw(sn, val, ns, t) == obj_loop(sn, val, PyIter(val), ns, <<>>, t)

\* The loop of ListNode.from_raw and LeafListNode.from_raw: each entry goes
\* to the superclass's from_raw with the namespace of the call.
arr_loop(sn, ens, ns, res, t) ==
    IF ens = <<>> THEN ROk(ArrayValue(res, t))
    ELSE Bind(IF IsLeafList(sn) THEN TerminalNode_from_raw(Head(ens))
              ELSE InternalNode_from_raw(sn, Head(ens), ns, t), LAMBDA en :
             IF en.exc # "none" THEN en
             ELSE arr_loop(sn, Tail(ens), ns, Append(res, en.v), t))

\* sn.from_raw(val, ns), by the class of the schema node sn
from_raw(sn, val, ns, t) ==
    IF SchemaTree[sn].kind = "leaf" THEN TerminalNode_from_raw(val)
    ELSE IF SchemaTree[sn].kind \in {"list", "leaflist"}
    THEN arr_loop(sn, PyIter(val), ns, <<>>, t)
    ELSE InternalNode_from_raw(sn, val, ns, t)

\* ----------------------------------------------------------- raw documents
MaxMembers == 3
MaxEntries == 2

Raw_u == RStr(<<"u">>)
Raw_v == RStr(<<"v">>)
Key_x == <<"x">>
Key_y == <<"y">>
Key_q == <<"q">>
Key_e == <<"e">>
Key_z == <<"z">>
Key_nx == <<"n", ":", "x">>
Key_mx == <<"m", ":", "x">>
Key_mk == <<"m", ":", "k">>
Key_mc == <<"m", ":", "c">>
Key_ms == <<"m", ":", "s">>
Key_mq == <<"m", ":", "q">>

\* The dictionaries of at most n members drawn from S, the keys distinct
RawObjects(S, n) ==
    {RObj(m) : m \in {mm \in UNION {[1..k -> S] : k \in 0..n} :
                         \A i, j \in 1..Len(mm) : i # j => mm[i][1] # mm[j][1]}}
\* The lists of at most n entries drawn from S
RawArrays(S, n) == {RArr(e) : e \in UNION {[1..k -> S] : k \in 0..n}}

\* Documents for container e, for container c, for list l and for the root
RawInputs_e == {RObj(<<>>), RObj(<<<<Key_z, Raw_u>>>>), RObj(<<<<Key_q, Raw_u>>>>)}
RawInputs_c ==
    RawObjects({<<Key_y, Raw_u>>, <<Key_x, Raw_u>>, <<Key_nx, Raw_v>>, <<Key_mx, Raw_v>>,
                <<Key_q, Raw_u>>} \cup {<<Key_e, r>> : r \in RawInputs_e}, MaxMembers)
RawInputs_l ==
    RawArrays(RawObjects({<<Name_k, Raw_u>>, <<Name_p, Raw_v>>, <<Key_q, Raw_u>>,
                          <<Key_mk, Raw_v>>}, 2), MaxEntries)
RawInputs_root ==
    RawObjects({<<Name_ma, Raw_u>>, <<Name_a, Raw_u>>, <<Key_mq, Raw_u>>, <<Name_md, Raw_v>>,
                <<Key_ms, RArr(<<Raw_u, Raw_v>>)>>, <<Key_ms, RStr(<<"u", "v">>)>>,
                <<Key_mc, RObj(<<<<Key_nx, Raw_u>>, <<Key_y, Raw_v>>>>)>>,
                <<Key_mc, RObj(<<<<Key_e, RObj(<<<<Key_q, Raw_u>>>>)>>>>)>>,
                <<Key_mc, RStr(Key_y)>>, <<Key_mc, RArr(<<Raw_u>>)>>,
                <<Name_ml, RArr(<<RObj(<<<<Name_k, Raw_u>>>>), RObj(<<<<Key_q, Raw_v>>>>)>>)>>,
                <<Name_ml, RObj(<<<<Name_k, Raw_u>>>>)>>}, 2)

NoOut == RFail("-")

\* from_raw is called on a schema node with a raw document and a namespace
\* (None, the empty string, when the caller gives none).
InitRaw ==
    /\ Idle
    /\ \/ \E r \in RawInputs_c, ns \in {<<>>, Str_n} :
              run = [op |-> "raw", sn |-> 13, raw |-> r, ns |-> ns, out |-> NoOut]
       \/ \E r \in RawInputs_l :
              run = [op |-> "raw", sn |-> 3, raw |-> r, ns |-> <<>>, out |-> NoOut]
       \/ \E r \in RawInputs_root :
              run = [op |-> "raw", sn |-> 1, raw |-> r, ns |-> <<>>, out |-> NoOut]

\* sn.from_raw(raw, ns)
FromRaw ==
    /\ run.op = "raw"
    /\ run' = [run EXCEPT !.op = "from_raw", !.out = from_raw(run.sn, run.raw, run.ns, now)]
    /\ UNCHANGED <<heap, nodes, now, last, snap>>

NextRaw == FromRaw

SpecRaw == InitRaw /\ [][NextRaw]_vars

\* ------------------------------------------------------- claims on from_raw
\* The data child that a raw key names on its own: 'p:loc' in namespace p,
\* 'loc' in the namespace ns of the call (the node's own when ns is None).
KeyChild(sn, key, ns) ==
    IF Partition(key)[2] # <<>>
    THEN get_data_child(sn, Partition(key)[3], Partition(key)[1])
    ELSE get_data_child(sn, Partition(key)[1], ns)

\* The members of the object when every key is resolved on its own
RECURSIVE Independent(_, _, _, _)
Independent(sn, m, ns, res) ==
    IF m = <<>> THEN res
    ELSE Independent(sn, Tail(m), ns,
                     SelPut(res, qname(KeyChild(sn, Head(m)[1], ns)),
                            from_raw(KeyChild(sn, Head(m)[1], ns), Head(m)[2], <<>>, now).v))

\* from_raw has ended on an object node that was given a dictionary
CookedObject ==
    /\ run.op = "from_raw"
    /\ SchemaTree[run.sn].kind \in {"root", "container"}
    /\ run.raw.t = "o"

\* Every key names a data child on its own, and the child cooks its value
AllResolve ==
    \A j \in 1..Len(run.raw.m) :
        /\ KeyChild(run.sn, run.raw.m[j][1], run.ns) # 0
        /\ from_raw(KeyChild(run.sn, run.raw.m[j][1], run.ns), run.raw.m[j][2], <<>>, now).exc = "none"

\* C16: InternalNode.from_raw resolves every raw key on its own, a key
\* 'p:loc' in namespace p and a key 'loc' in the namespace of the call
\* (else the node's own) whatever keys precede it, and stores each member
\* under the name of the child so resolved.
C16_KeysIndependent ==
    (CookedObject /\ AllResolve) =>
        /\ run.out.exc = "none"
        /\ run.out.v.m = Independent(run.sn, run.raw.m, run.ns, <<>>)

\* The raw value has the shape its schema node asks for, below every key
\* that names a data child.
RECURSIVE Shaped(_, _, _), ShapedObj(_, _, _)
ShapedObj(sn, raw, ns) ==
    /\ raw.t = "o"
    /\ \A j \in 1..Len(raw.m) :
           KeyChild(sn, raw.m[j][1], ns) # 0 =>
               Shaped(KeyChild(sn, raw.m[j][1], ns), raw.m[j][2], <<>>)
Shaped(sn, raw, ns) ==
    IF SchemaTree[sn].kind = "leaf" THEN raw.t = "s"
    ELSE IF SchemaTree[sn].kind = "leaflist"
    THEN raw.t = "a" /\ \A j \in 1..Len(raw.e) : raw.e[j].t = "s"
    ELSE IF SchemaTree[sn].kind = "list"
    THEN raw.t = "a" /\ \A j \in 1..Len(raw.e) : ShapedObj(sn, raw.e[j], ns)
    ELSE ShapedObj(sn, raw, ns)

\* Some key of the raw value, at any depth, names no data child.
RECURSIVE UnknownKey(_, _, _), UnknownKeyObj(_, _, _)
UnknownKeyObj(sn, raw, ns) ==
    \E j \in 1..Len(raw.m) :
        \/ KeyChild(sn, raw.m[j][1], ns) = 0
        \/ UnknownKey(KeyChild(sn, raw.m[j][1], ns), raw.m[j][2], <<>>)
UnknownKey(sn, raw, ns) ==
    IF SchemaTree[sn].kind \in {"leaf", "leaflist"} THEN FALSE
    ELSE IF SchemaTree[sn].kind = "list"
    THEN \E j \in 1..Len(raw.e) : UnknownKeyObj(sn, raw.e[j], ns)
    ELSE UnknownKeyObj(sn, raw, ns)

\* C17: from_raw fails with RawMemberError, and with no other exception,
\* whenever a key of the raw value names no data child of its schema node,
\* at any depth and inside list entries too.
C17_UnknownKey ==
    (run.op = "from_raw" /\ Shaped(run.sn, run.raw, run.ns)
                         /\ UnknownKey(run.sn, run.raw, run.ns)) =>
        run.out.exc = "RawMemberError"

\* ============================================================ get_data_child
\* The names of the schema tree and one that no node has; the namespaces a
\* caller gives (None, the empty string, when they give none)
ChildNameInputs == {SchemaTree[j].name : j \in 2..Len(SchemaTree)} \cup {Key_q}
NamespaceInputs == {<<>>, Str_m, Str_n}
InternalNodes == {j \in 1..Len(SchemaTree) : IsInternalNode(j)}

\* get_data_child is called on an internal node.
InitChild ==
    /\ Idle
    /\ \E sn \in InternalNodes, name \in ChildNameInputs, ns \in NamespaceInputs :
           run = [op |-> "child", sn |-> sn, name |-> name, ns |-> ns, out |-> 0]

\* sn.get_data_child(name, ns)
GetDataChild ==
    /\ run.op = "child"
    /\ run' = [run EXCEPT !.op = "get_data_child",
                          !.out = get_data_child(run.sn, run.name, run.ns)]
    /\ UNCHANGED <<heap, nodes, now, last, snap>>

NextChild == GetDataChild

SpecChild == InitChild /\ [][NextChild]_vars

\* --------------------------------------------------- claims on get_data_child
\* Node d lies below sn with only choices and cases between the two.
RECURSIVE Transparent(_, _)
Transparent(sn, d) ==
    \/ SchemaTree[d].parent = sn
    \/ /\ SchemaTree[d].parent # 0
       /\ IsChoiceOrCase(SchemaTree[d].parent)
       /\ Transparent(sn, SchemaTree[d].parent)

\* The namespace of the call: the one given, else the receiver's
CallNs == IF run.ns # <<>> THEN run.ns ELSE SchemaTree[run.sn].ns

\* The data nodes of the name and namespace of the call that the receiver
\* reaches through choices and cases only
DataMatches ==
    {d \in 1..Len(SchemaTree) :
        /\ IsDataNode(d)
        /\ SchemaTree[d].name = run.name /\ SchemaTree[d].ns = CallNs
        /\ Transparent(run.sn, d)}

\* C18: get_data_child(name, ns), the namespace being the one given or else
\* the receiver's, returns a data node of that name and namespace with only
\* choices and cases between the receiver and it; a direct data child that
\* matches is the one returned, wherever it stands among the children; the
\* result is null iff there is no such data node.
C18_GetDataChild ==
    run.op = "get_data_child" =>
        IF DataMatches = {} THEN run.out = 0
        ELSE /\ run.out \in DataMatches
             /\ (\E d \in DataMatches : SchemaTree[d].parent = run.sn) =>
                    SchemaTree[run.out].parent = run.sn

\* ==================================================================== config
\* The _config attribute of every schema node: "unset" while the node has
\* none.  The schema root is configuration.
ConfigAttrs0 == [sn \in 1..Len(SchemaTree) |-> IF sn = 1 THEN "True" ELSE "unset"]

\* SchemaNode.config_stmt, if it stored the argument whatever it is
config_stmt_storesAny(cfg, sn, argument) ==
    [cfg EXCEPT ![sn] = IF argument = "false" THEN "False" ELSE "True"]

\* SchemaNode.config_stmt: only the argument "false" sets the attribute.
config_stmt(cfg, sn, argument) ==
    IF argument = "false" THEN [cfg EXCEPT ![sn] = "False"] ELSE cfg

\* SchemaNode.config: the node's own attribute, else the parent's config; a
\* node without parent (0) has no attribute config.
RECURSIVE config(_, _)
config(cfg, sn) ==
    IF sn = 0 THEN "AttributeError"
    ELSE IF cfg[sn] # "unset" THEN cfg[sn]
    ELSE config(cfg, SchemaTree[sn].parent)

\* The nodes whose definitions may hold a config statement: list l and its
\* key, container c, its choice, case and leaf y, container e and leaf z.
ConfigStmtNodes == {3, 6, 13, 14, 15, 16, 19, 20}

\* The schema tree is built; no config statement is handled yet.
InitConfig ==
    /\ Idle
    /\ run = [op |-> "schema", stmt |-> [sn \in ConfigStmtNodes |-> "-"], cfg |-> ConfigAttrs0]

\* handle_substatements meets the config statement of node sn.
ConfigStmt ==
    /\ run.op = "schema"
    /\ \E sn \in ConfigStmtNodes, argument \in {"true", "false"} :
           /\ run.stmt[sn] = "-"
           /\ run' = [run EXCEPT !.stmt[sn] = argument,
                                 !.cfg = config_stmt(run.cfg, sn, argument)]
    /\ UNCHANGED <<heap, nodes, now, last, snap>>

NextConfig == ConfigStmt

SpecConfig == InitConfig /\ [][NextConfig]_vars

\* ------------------------------------------------------------ claims on config
\* Node sn or one of its ancestors carries "config false".
RECURSIVE StateOnly(_)
StateOnly(sn) ==
    /\ sn # 0
    /\ \/ sn \in ConfigStmtNodes /\ run.stmt[sn] = "false"
       \/ StateOnly(SchemaTree[sn].parent)

\* C19: for every schema node below the root, config is false iff the node
\* or one of its ancestors carries a "config false" statement, and true
\* otherwise: "config true" never turns a node below a state-only ancestor
\* back into configuration.
C19_ConfigInherited ==
    run.op = "schema" =>
        \A sn \in 2..Len(SchemaTree) :
            config(run.cfg, sn) = IF StateOnly(sn) THEN "False" ELSE "True"

\* Container c carries "config false" and container e below it "config
\* true": leaf z of e is state data.
C19_Witness ==
    /\ run.op = "schema"
    /\ run.stmt[13] = "false" /\ run.stmt[19] = "true"
    /\ config(run.cfg, 20) = "False"

\* ====================================================================== main
\* What main meets on its way: how opening and reading the YANG library file
\* ends ("text" for a JSON text, "garbled" for a text that is no JSON), what
\* DataModel makes of a JSON text, the action asked for, how opening and
\* decoding the instance file ends, and how from_raw and validate end.
LibraryFiles == {"text", "garbled", "FileNotFoundError", "PermissionError"}
ModelOutcomes == {"ok", "BadYangLibraryData", "FeaturePrerequisiteError",
                  "MultipleImplementedRevisions", "ModuleNotFound"}
Actions == {"id", "tree", "digest", "validate", "none"}
InstanceFiles == {"json", "FileNotFoundError", "PermissionError", "JSONDecodeError"}
RawOutcomes == {"ok", "RawMemberError", "RawTypeError"}
ValidateOutcomes == {"ok", "SchemaError", "SemanticError"}

\* The end of main: a return value, or an exception that no handler took.
Returns(code) == [kind |-> "return", code |-> code, exc |-> "none"]
Raises(exc) == [kind |-> "raise", code |-> -1, exc |-> exc]
Running == [kind |-> "running", code |-> -1, exc |-> "none"]

\* DataModel(yl, path): a text that is no JSON is an ill-formed YANG library
\* (BadYangLibraryData), unless the decoder's own exception comes through.
DataModel(env) ==
    IF env.ylib = "garbled" THEN {"BadYangLibraryData", "JSONDecodeError"}
    ELSE {env.model}

\* A stage of main ends main with out, or hands over to the following stage.
Stage(stage, out, following) ==
    run' = [run EXCEPT !.op = IF out.kind = "running" THEN following ELSE "exit",
                       !.stages = Append(run.stages, stage),
                       !.out = out]

InitMain ==
    /\ Idle
    /\ \E yl \in LibraryFiles, dm \in ModelOutcomes, ac \in Actions, inst \in InstanceFiles,
          raw \in RawOutcomes, va \in ValidateOutcomes :
           run = [op |-> "read_library", stages |-> <<>>, out |-> Running,
                  env |-> [ylib |-> yl, model |-> dm, action |-> ac, inst |-> inst,
                           raw |-> raw, validate |-> va]]

\* open(ylib) and infile.read(): the text is not decoded here.
ReadLibrary ==
    /\ run.op = "read_library"
    /\ Stage("read_library",
             IF run.env.ylib \in {"FileNotFoundError", "PermissionError"}
             THEN Returns(1) ELSE Running, "data_model")
    /\ UNCHANGED <<heap, nodes, now, last, snap>>

\* dm = DataModel(yl, path)
BuildDataModel ==
    /\ run.op = "data_model"
    /\ \E e \in DataModel(run.env) :
           Stage("data_model",
                 IF e = "ok" THEN Running
                 ELSE IF e \in ModelOutcomes THEN Returns(2)
                 ELSE Raises(e), "output")
    /\ UNCHANGED <<heap, nodes, now, last, snap>>

\* print the module set id, the tree or the digest and return 0; return 0
\* when there is nothing to validate.
Output ==
    /\ run.op = "output"
    /\ Stage("output", IF run.env.action = "validate" THEN Running ELSE Returns(0),
             "read_instance")
    /\ UNCHANGED <<heap, nodes, now, last, snap>>

\* open(validate) and json.load(infile)
ReadInstance ==
    /\ run.op = "read_instance"
    /\ Stage("read_instance", IF run.env.inst = "json" THEN Running ELSE Returns(1),
             "from_raw")
    /\ UNCHANGED <<heap, nodes, now, last, snap>>

\* i = dm.from_raw(itxt)
DecodeInstance ==
    /\ run.op = "from_raw"
    /\ Stage("from_raw", IF run.env.raw = "ok" THEN Running ELSE Returns(3), "validate")
    /\ UNCHANGED <<heap, nodes, now, last, snap>>

\* i.validate(scope, ctype), then return 0
ValidateInstance ==
    /\ run.op = "validate"
    /\ Stage("validate", IF run.env.validate = "ok" THEN Returns(0) ELSE Returns(3), "exit")
    /\ UNCHANGED <<heap, nodes, now, last, snap>>

NextMain ==
    \/ ReadLibrary
    \/ BuildDataModel
    \/ Output
    \/ ReadInstance
    \/ DecodeInstance
    \/ ValidateInstance

SpecMain == InitMain /\ [][NextMain]_vars

\* ------------------------------------------------------------- claims on main
\* The stages in their order, and for each whether it fails in env and the
\* exit code it then gives (the output stage ends main with 0 when an
\* output, or nothing, is asked for).
StageOrder == <<"read_library", "data_model", "output", "read_instance", "from_raw", "validate">>
StageCode(env) ==
    <<IF env.ylib # "text" THEN 1 ELSE -1,
      IF env.model # "ok" THEN 2 ELSE -1,
      IF env.action # "validate" THEN 0 ELSE -1,
      IF env.inst # "json" THEN 1 ELSE -1,
      IF env.raw # "ok" THEN 3 ELSE -1,
      IF env.validate # "ok" THEN 3 ELSE 0>>
\* The first stage that ends main
Deciding(env) == CHOOSE j \in 1..6 : StageCode(env)[j] # -1 /\ \A i \in 1..(j - 1) : StageCode(env)[i] = -1

\* C20: main runs its stages in the fixed order; the first stage that fails
\* decides the exit code and no later stage runs: 1 for an I/O or JSON
\* decoding error on the YANG library file or the instance file, 2 for the
\* four data model errors, 3 for the raw and validation errors, 0 when no
\* stage fails.
C20_ExitCodes ==
    run.op = "exit" =>
        /\ run.out = Returns(StageCode(run.env)[Deciding(run.env)])
        /\ run.stages = SubSeq(StageOrder, 1, Deciding(run.env))

\* ================================================================= iteration
\* The generator it() of InstanceNode.__iter__ after one next(g): the heap
\* and the nodes, the exception the consumer gets ("none" also when the
\* generator just ends), where the generator stands ("suspended" at its
\* yield, or "done") and the entry en it yielded.
Resumed(h, N, exc, gen, en) == [h |-> h, N |-> N, exc |-> exc, gen |-> gen, en |-> en]

\* One next(g) on the generator it() of node x: a generator not yet
\* started ("new") runs en = self[0], one suspended at the yield of en
\* runs en = en.next(); then it yields en.  In the handler of
\* NonexistentInstance it does `raise StopIteration', which the interpreter
\* takes for the end of the generator or turns into RuntimeError.
it(h, N, x, gen, en, t) ==
    Bind(IF gen = "new" THEN getitem(h, N, x, IndexKey(0), t) ELSE next(h, N, en),
         LAMBDA r :
             IF r.exc = "none" THEN Resumed(r.h, r.N, "none", "suspended", r.res)
             ELSE IF r.exc = "NonexistentInstance"
             THEN Resumed(r.h, r.N, IF generator_stop THEN "RuntimeError" ELSE "none",
                          "done", 0)
             ELSE Resumed(r.h, r.N, r.exc, "done", 0))

\* iter(x) by InstanceNode.__iter__: a new generator for an array (nothing
\* of its body has run), the iterator over the names of the members for an
\* object, InstanceValueError for a scalar.
InstanceNode_iter(h, N, x) ==
    IF IsArray(h, N[x].value) THEN [exc |-> "none", gen |-> "new", names |-> <<>>]
    ELSE IF IsObject(h, N[x].value)
    THEN [exc |-> "none", gen |-> "done", names |-> h[N[x].value.r].names]
    ELSE [exc |-> "InstanceValueError", gen |-> "done", names |-> <<>>]

\* The document of a session whose list m:l holds only the first len of its
\* entries
HeapWithEntries(len) ==
    [InitHeap(0) EXCEPT ![4] = ArrCell(SubSeq(InitHeap(0)[4].vals, 1, len), 0)]

\* What an iteration yielded, as a caller sees it: index and value of every
\* entry
Yielded(h, N, res) == [j \in 1..Len(res) |-> Observed(h, N[res[j]])]

\* A session on a document whose list has 0 to 3 entries, with either
\* interpreter.
InitIter ==
    \E len \in 0..Len(InitHeap(0)[4].vals), gs \in BOOLEAN :
        /\ heap = HeapWithEntries(len)
        /\ nodes = <<RootNode_new(Ref(InitCells), 1, 0)>>
        /\ now = 0
        /\ last = [op |-> "init", x |-> 0, key |-> NoKey, v |-> NoVal, keys |-> <<>>,
                   exc |-> "none", res |-> 1]
        /\ snap = <<Observed(HeapWithEntries(len), RootNode_new(Ref(InitCells), 1, 0))>>
        /\ run = [op |-> "none", generator_stop |-> gs, x |-> 0, exc |-> "none",
                  gen |-> "done", en |-> 0,
                  res |-> <<>>, names |-> <<>>, rounds |-> 0, before |-> <<>>]

\* g = iter(x), for the first or the second time on the same node x, when
\* the iterator made before is used up.
Iterate ==
    \E x \in Receivers :
        /\ run.rounds < 2
        /\ run.rounds = 0 \/ run.x = x
        /\ run.gen = "done"
        /\ LET out == InstanceNode_iter(heap, nodes, x)
           IN  run' = [run EXCEPT !.op = "iter", !.x = x, !.exc = out.exc,
                                  !.gen = out.gen, !.en = 0,
                                  !.res = <<>>, !.names = out.names,
                                  !.rounds = @ + 1,
                                  !.before = Yielded(heap, nodes, run.res)]
        /\ UNCHANGED <<heap, nodes, now, last, snap>>

\* next(g): the generator runs up to its next yield or to its end.  Between
\* two of these steps the consumer makes calls of its own.
IterNext ==
    /\ last.exc = "none"
    /\ run.op = "iter"
    /\ run.gen \in {"new", "suspended"}
    /\ LET out == it(heap, nodes, run.x, run.gen, run.en, now)
       IN  /\ heap' = out.h
           /\ nodes' = out.N
           /\ snap' = snap \o [j \in 1..(Len(out.N) - Len(nodes)) |->
                                   Observed(out.h, out.N[Len(nodes) + j])]
           /\ run' = [run EXCEPT !.exc = out.exc, !.gen = out.gen, !.en = out.en,
                                 !.res = IF out.gen = "suspended" THEN Append(@, out.en)
                                         ELSE @]
    /\ UNCHANGED <<now, last>>

NextIter == GetItem \/ Iterate \/ IterNext

SpecIter == InitIter /\ [][NextIter]_vars

\* --------------------------------------------------------- claims on iteration
\* An array-valued node was iterated over, to the end.
ArrayIterated == run.op = "iter" /\ run.gen = "done" /\ IsArray(heap, nodes[run.x].value)

\* C21: iterating over an array-valued node of length L yields exactly L
\* entries, the j-th with index j and the j-th element for its value, and
\* then ends without raising; an empty array yields nothing; a second
\* iteration from the same node yields the same sequence.
C21_IterationComplete ==
    ArrayIterated =>
        /\ run.exc = "none"
        /\ Len(run.res) = Len(heap[nodes[run.x].value.r].vals)
        /\ \A j \in 1..Len(run.res) :
               /\ nodes[run.res[j]].kind = "entry"
               /\ nodes[run.res[j]].parinst = run.x
               /\ KeyOf(nodes[run.res[j]]) = IndexKey(j - 1)
               /\ nodes[run.res[j]].value = heap[nodes[run.x].value.r].vals[j]
        /\ run.rounds = 2 => Yielded(heap, nodes, run.res) = run.before

\* =================================================================== threads
MaxSteps == 3
MaxCalls == 4
MaxThreadNodes == 6

\* The calls a thread makes on the node it holds
Calls ==
    {[op |-> "getitem", key |-> k, v |-> NoVal] :
        k \in {NameKey(Name_ma), NameKey(Name_ml), IndexKey(0)}}
    \cup {[op |-> "put_member", key |-> NameKey(Name_ma), v |-> Val_v]}
    \cup {[op |-> "delete_item", key |-> k, v |-> NoVal] : k \in {NameKey(Name_ma), IndexKey(0)}}
    \cup {[op |-> "update", key |-> NoKey, v |-> Val_v]}
    \cup {[op |-> o, key |-> NoKey, v |-> Ref(2)] : o \in {"insert_before", "insert_after"}}
    \cup {[op |-> o, key |-> NoKey, v |-> NoVal] : o \in {"up", "top"}}

\* The call c on node x
Call(c, h, N, x, t) ==
    CASE c.op = "getitem" -> getitem(h, N, x, c.key, t)
      [] c.op = "put_member" -> put_member(h, N, x, c.key.n, c.v, t)
      [] c.op = "delete_item" -> delete_item(h, N, x, c.key, t)
      [] c.op = "update" -> update(h, N, x, c.v, t)
      [] c.op = "insert_before" -> insert_before(h, N, x, c.v, t)
      [] c.op = "insert_after" -> insert_after(h, N, x, c.v, t)
      [] c.op = "up" -> up(h, N, x, t)
      [] OTHER -> top(h, N, x, t)

\* Only an array entry has the insert methods.
Callable(c, h, N, x) ==
    c.op \in {"insert_before", "insert_after"} => N[x].kind = "entry"

\* A thread: the node it holds in the memory it shares with the other
\* thread (cur) and the exception that ended it; next to it the same calls
\* made by a thread of its own in a memory of its own (heap ah, nodes aN).
Thread0 ==
    [cur |-> 1, exc |-> "none", steps |-> 0,
     ah |-> InitHeap(0), aN |-> <<RootNode_new(Ref(InitCells), 1, 0)>>, acur |-> 1,
     aexc |-> "none"]

\* Two threads are handed the same root.
InitThreads ==
    /\ Idle
    /\ \E gs \in BOOLEAN :
           run = [op |-> "threads", generator_stop |-> gs, th |-> <<Thread0, Thread0>>,
                  order |-> <<>>]

\* Thread t makes its next call; the scheduler may pick either thread.
ThreadCall ==
    \E t \in 1..2, c \in Calls :
        /\ run.th[t].exc = "none" /\ run.th[t].steps < MaxSteps
        /\ Len(run.order) < MaxCalls
        /\ Callable(c, heap, nodes, run.th[t].cur)
        /\ LET out == Call(c, heap, nodes, run.th[t].cur, now)
               alone == Call(c, run.th[t].ah, run.th[t].aN, run.th[t].acur, now)
           IN  /\ Len(out.N) <= MaxThreadNodes
               /\ heap' = out.h
               /\ nodes' = out.N
               /\ snap' = snap \o [j \in 1..(Len(out.N) - Len(nodes)) |->
                                       Observed(out.h, out.N[Len(nodes) + j])]
               /\ run' = [run EXCEPT !.order = Append(@, t),
                             !.th[t] = [cur |-> IF out.exc = "none" THEN out.res ELSE @.cur,
                                        exc |-> out.exc, steps |-> @.steps + 1,
                                        ah |-> alone.h, aN |-> alone.N,
                                        acur |-> IF alone.exc = "none" THEN alone.res ELSE @.acur,
                                        aexc |-> alone.exc]]
        /\ UNCHANGED <<now, last>>

NextThreads == ThreadCall \/ Tick

SpecThreads == InitThreads /\ [][NextThreads]_vars

\* ----------------------------------------------------------- claims on threads
\* C22: two threads navigate and mutate from the same root, in any
\* interleaving: each holds, after every call, exactly the node (and in the
\* end the root) that it would hold had it run alone, or ends with the same
\* exception, and the root they were handed is as it was.
C22_NonInterference ==
    run.op = "threads" =>
        /\ \A t \in 1..2 :
               /\ run.th[t].exc = run.th[t].aexc
               /\ Observed(heap, nodes[run.th[t].cur])
                      = Observed(run.th[t].ah, run.th[t].aN[run.th[t].acur])
        /\ Observed(heap, nodes[1]) = snap[1]

\* Thread 1 set member m:a of the root and went to the top, thread 2
\* deleted it from the same root in between: each holds its own root.
C22_Witness ==
    /\ run.op = "threads"
    /\ run.order = <<1, 2, 1>>
    /\ nodes[run.th[1].cur].kind = "root" /\ nodes[run.th[2].cur].kind = "root"
    /\ run.th[1].cur # 1 /\ run.th[2].cur # 1
    /\ DictHas(heap[nodes[run.th[1].cur].value.r], Name_ma)
    /\ ~DictHas(heap[nodes[run.th[2].cur].value.r], Name_ma)

\* ------------------------------------------------- claim on instance names
\* The instance name of the data node cn as a member of an object whose
\* schema node is sn: qualified iff the two namespaces differ.
StoredName(sn, cn) ==
    IF SchemaTree[cn].ns = SchemaTree[sn].ns THEN SchemaTree[cn].name
    ELSE SchemaTree[cn].ns \o <<":">> \o SchemaTree[cn].name

\* C23: every member of an object made by from_raw is stored under
\* 'module:local' iff the namespace of its schema node differs from the
\* namespace of the schema node of the object, and under 'local' otherwise,
\* also when the member's schema node sits in a case of a choice.
C23_NamespacePreserved ==
    (CookedObject /\ AllResolve /\ run.out.exc = "none"
                  /\ run.out.v.m = Independent(run.sn, run.raw.m, run.ns, <<>>)) =>
        \A j \in 1..Len(run.raw.m) :
            \E i \in 1..Len(run.out.v.m) :
                run.out.v.m[i][1] = StoredName(run.sn, KeyChild(run.sn, run.raw.m[j][1], run.ns))

\* ------------------------------------------------------------ claim on top
\* The step is a call of op: a call leaves a new record in `last' or new
\* nodes (a call that returns what the call before it returned, with the
\* same arguments, changes nothing).
CallOf(op) == last'.op = op /\ <<last, nodes>>' # <<last, nodes>>

\* C24: top() returns from every node that navigation and mutation reach,
\* after exactly len(path) up() steps (each makes one node), with a root
\* node of empty path, which is the receiver itself when the receiver is a
\* root; up() on a root raises NonexistentInstance.
C24_TopTerminates ==
    [][/\ CallOf("top") =>
              /\ last'.exc = "none"
              /\ nodes'[last'.res].kind = "root"
              /\ nodes'[last'.res].path = <<>>
              /\ Len(nodes') - Len(nodes) = Len(nodes[last'.x].path)
              /\ nodes[last'.x].kind = "root" => last'.res = last'.x
       /\ (CallOf("up") /\ nodes[last'.x].kind = "root") =>
              last'.exc = "NonexistentInstance"]_vars

\* ------------------------------------------------- claims on array entries
\* The index of an entry: the last component of its path
IndexOf(node) == node.path[Len(node.path)].i
\* The entries of the array that the parent of entry x holds
ParentArray(x) == heap[nodes[nodes[x].parinst].value.r].vals
\* The call before was n[i], with 0 <= i < len(n), and this step calls op on
\* the entry it returned.
OnIndexed(op) ==
    /\ CallOf(op)
    /\ last.op = "getitem" /\ last.exc = "none" /\ last.res = last'.x
    /\ nodes[last.res].kind = "entry"
    /\ last.key.i >= 0

\* C25: on the entry n[i] of an array n of length L, previous() returns the
\* entry of index i-1 and value n.value[i-1] when 0 < i, next() the entry of
\* index i+1 and value n.value[i+1] when i < L-1, and previous() on n[0] and
\* next() on n[L-1] raise NonexistentInstance.
C25_SiblingMoves ==
    [][/\ OnIndexed("previous") =>
              IF IndexOf(nodes[last.res]) = 0 THEN last'.exc = "NonexistentInstance"
              ELSE /\ last'.exc = "none"
                   /\ IndexOf(nodes'[last'.res]) = IndexOf(nodes[last.res]) - 1
                   /\ nodes'[last'.res].value = ParentArray(last.res)[IndexOf(nodes[last.res])]
       /\ OnIndexed("next") =>
              IF IndexOf(nodes[last.res]) = Len(ParentArray(last.res)) - 1
              THEN last'.exc = "NonexistentInstance"
              ELSE /\ last'.exc = "none"
                   /\ IndexOf(nodes'[last'.res]) = IndexOf(nodes[last.res]) + 1
                   /\ nodes'[last'.res].value = ParentArray(last.res)[IndexOf(nodes[last.res]) + 2]]_vars

\* C26: the index of every array entry that indexing, look_up, next,
\* previous, update, insert_before and insert_after reach equals the number
\* of entries in its `before' list.
C26_IndexInvariant ==
    \A j \in 1..Len(nodes) :
        nodes[j].kind = "entry" => IndexOf(nodes[j]) = Len(nodes[j].before)

\* ------------------------------------------------------- claim on sibling
\* The object that up() of node x rebuilds, as name=value pairs in a fixed
\* order of names.
UpValue(x) ==
    Ser(up(heap, nodes, x, now).h, ValueOf(up(heap, nodes, x, now)), "eq", MaxDepth)

\* C27: for a member m and every name s among its siblings, m.sibling(s) is the
\* member of name s, and up() of it rebuilds the same name-to-value mapping
\* as up() of m, also when the value of m was changed by update;
\* m.sibling(m.name) raises NonexistentInstance; and no member's own name is
\* a key of its siblings.
C27_SiblingPreservesParent ==
    /\ \A j \in 1..Len(nodes) :
           nodes[j].kind = "member" =>
               ~DictHas(heap[nodes[j].siblings.r], KeyOf(nodes[j]).n)
    /\ ( /\ last.op = "sibling"
         /\ DictHas(heap[nodes[last.x].siblings.r], last.key.n) ) =>
           /\ last.exc = "none"
           /\ nodes[last.res].kind = "member"
           /\ KeyOf(nodes[last.res]).n = last.key.n
           /\ nodes[last.res].value = DictGet(heap[nodes[last.x].siblings.r], last.key.n)
           /\ UpValue(last.res) = UpValue(last.x)
    /\ (last.op = "sibling" /\ last.key.n = KeyOf(nodes[last.x]).n) =>
           last.exc = "NonexistentInstance"

\* ==================================================================== goto
\* EntryValue.goto_step: inst._entry(inst.value.index(self.value)), only
\* ValueError is caught.  A dict has no method index; on a string index
\* finds the substring, and _entry then asks the string for its timestamp
\* (or, on the empty string, turns the IndexError of val[0] into
\* NonexistentInstance).
EntryValue_goto_step_nextEntry(h, N, x, sel) ==
    IF IsObject(h, N[x].value) THEN Raise(h, N, "AttributeError")
    ELSE IF IsArray(h, N[x].value)
    THEN Bind(list_index(h, h[N[x].value.r].vals, sel.value, 1), LAMBDA j :
             IF j = 0 THEN Raise(h, N, "NonexistentInstance")
             ELSE entry(h, N, x, IndexKey(j)))
    ELSE IF sel.value.t # "s" THEN Raise(h, N, "TypeError")
    ELSE Bind(str_index(N[x].value.s, sel.value.s, 1), LAMBDA j :
             IF j = 0 \/ j > Len(N[x].value.s) THEN Raise(h, N, "NonexistentInstance")
             ELSE Raise(h, N, "AttributeError"))

EntryValue_goto_step(h, N, x, sel) ==
    IF IsObject(h, N[x].value) THEN Raise(h, N, "AttributeError")
    ELSE IF IsArray(h, N[x].value)
    THEN Bind(list_index(h, h[N[x].value.r].vals, sel.value, 1), LAMBDA j :
             IF j = 0 THEN Raise(h, N, "NonexistentInstance")
             ELSE entry(h, N, x, IndexKey(j - 1)))
    ELSE IF sel.value.t # "s" THEN Raise(h, N, "TypeError")
    ELSE Bind(str_index(N[x].value.s, sel.value.s, 1), LAMBDA j :
             IF j = 0 \/ j > Len(N[x].value.s) THEN Raise(h, N, "NonexistentInstance")
             ELSE Raise(h, N, "AttributeError"))

\* EntryKeys.goto_step: inst.look_up(self.keys)
EntryKeys_goto_step(h, N, x, sel) == look_up(h, N, x, sel.keys)

\* InstanceSelector.goto_step (MemberName, EntryIndex): inst[self.key]
InstanceSelector_goto_step(h, N, x, sel, t) == getitem(h, N, x, sel.key, t)

goto_step(h, N, x, sel, t) ==
    IF sel.sel = "EntryValue" THEN EntryValue_goto_step(h, N, x, sel)
    ELSE IF sel.sel = "EntryKeys" THEN EntryKeys_goto_step(h, N, x, sel)
    ELSE InstanceSelector_goto_step(h, N, x, sel, t)

\* InstanceNode.goto: inst = self; for sel in iroute: inst = sel.goto_step(inst)
RECURSIVE goto(_, _, _, _, _)
goto(h, N, x, iroute, t) ==
    IF iroute = <<>> THEN Ok(h, N, x)
    ELSE Bind(goto_step(h, N, x, Head(iroute), t), LAMBDA o :
             IF o.exc # "none" THEN o ELSE goto(o.h, o.N, o.res, Tail(iroute), t))

\* InstanceNode.peek: val = self.value; for sel in iroute: val =
\* sel.peek_step(val), and None is returned as soon as a step gives None.
RECURSIVE peek_loop(_, _, _)
peek_loop(h, val, iroute) ==
    IF iroute = <<>> THEN Stepped(val)
    ELSE Bind(peek_step(h, Head(iroute), val), LAMBDA o :
             IF o.exc # "none" \/ o.res = NoVal THEN o
             ELSE peek_loop(h, o.res, Tail(iroute)))
peek(h, N, x, iroute) == peek_loop(h, N[x].value, iroute)

\* The document of the session with the string "uv" for "m:d", the
\* leaf-list "m:s": [v, u] added, and the list "m:t": [{k: {p: u, k: u}}]
\* whose entry has for k an object equal to the first entry of "m:l", which
\* is another object.
RouteHeap ==
    SubSeq(InitHeap(0), 1, InitCells - 1)
        \o <<ArrCell(<<Val_v, Val_u>>, 0),
             ObjCell(<<Name_p, Name_k>>, <<Val_u, Val_u>>, 0),
             ObjCell(<<Name_k>>, <<Ref(InitCells + 1)>>, 0),
             ArrCell(<<Ref(InitCells + 2)>>, 0),
             ObjCell(<<Name_ma, Name_ml, Name_md, Key_ms, Name_mt>>,
                     <<Val_u, Ref(InitCells - 1), Val_uv, Ref(InitCells),
                       Ref(InitCells + 3)>>, 0)>>
RouteRoot == RootNode_new(Ref(InitCells + 4), 1, 0)

RouteSelectors ==
    SelectorInputs \cup {MemberName(Key_ms), MemberName(Name_mt), EntryValue(Val_v),
                         EntryKeys(<<<<Name_k, Ref(1)>>>>)}
Routes == UNION {[1..n -> RouteSelectors] : n \in 0..MaxRoute}
\* The nodes that goto and peek start from: the root, its list, the first
\* entry of the list and the leaf "m:d".
RouteStarts ==
    {Ok(RouteHeap, <<RouteRoot>>, 1),
     getitem(RouteHeap, <<RouteRoot>>, 1, NameKey(Name_ml), 0),
     getitem(RouteHeap, <<RouteRoot>>, 1, NameKey(Name_md), 0),
     goto(RouteHeap, <<RouteRoot>>, 1, <<MemberName(Name_ml), EntryIndex(0)>>, 0)}

NotCalled == [exc |-> "-", res |-> 0]

InitRoute ==
    \E s \in RouteStarts, r \in Routes :
        /\ heap = s.h
        /\ nodes = s.N
        /\ now = 0
        /\ last = [op |-> "init", x |-> 0, key |-> NoKey, v |-> NoVal, keys |-> <<>>,
                   exc |-> "none", res |-> s.res]
        /\ snap = [j \in 1..Len(s.N) |-> Observed(s.h, s.N[j])]
        /\ run = [op |-> "route", x |-> s.res, route |-> r, goto |-> NotCalled,
                  peek |-> NotCalled]

\* x.goto(route)
Goto ==
    /\ run.op = "route" /\ run.goto.exc = NotCalled.exc
    /\ LET out == goto(heap, nodes, run.x, run.route, now)
       IN  /\ heap' = out.h
           /\ nodes' = out.N
           /\ snap' = snap \o [j \in 1..(Len(out.N) - Len(nodes)) |->
                                   Observed(out.h, out.N[Len(nodes) + j])]
           /\ run' = [run EXCEPT !.goto = [exc |-> out.exc, res |-> out.res]]
    /\ UNCHANGED <<now, last>>

\* x.peek(route)
Peek ==
    /\ run.op = "route" /\ run.peek.exc = NotCalled.exc
    /\ run' = [run EXCEPT !.peek = peek(heap, nodes, run.x, run.route)]
    /\ UNCHANGED <<heap, nodes, now, last, snap>>

NextRoute == Goto \/ Peek \/ Tick

SpecRoute == InitRoute /\ [][NextRoute]_vars

\* ------------------------------------------------------ claim on goto, peek
\* goto and peek were both called on the node along the route.
BothCalled ==
    run.op = "route" /\ run.goto.exc # NotCalled.exc /\ run.peek.exc # NotCalled.exc

\* C28: when x.goto(route) returns a node, x.peek(route) returns the value
\* of that node; when x.peek(route) returns None, x.goto(route) raises; the
\* empty route gives x itself and the value of x.
C28_PeekGotoAgree ==
    BothCalled =>
        /\ run.goto.exc = "none" =>
               /\ run.peek.exc = "none"
               /\ run.peek.res = nodes[run.goto.res].value
        /\ (run.peek.exc = "none" /\ run.peek.res = NoVal) => run.goto.exc # "none"
        /\ run.route = <<>> => (run.goto.exc = "none" /\ run.goto.res = run.x)

\* goto reached an entry of the leaf-list by its value.
C28_Witness ==
    /\ BothCalled
    /\ run.goto.exc = "none"
    /\ run.route = <<MemberName(Key_ms), EntryValue(Val_u)>>
    /\ KeyOf(nodes[run.goto.res]) = IndexKey(1)
    /\ run.peek.res = Val_u
\* goto reached a member of an entry of the list by the keys of the entry.
C28_WitnessKeys ==
    /\ BothCalled
    /\ run.goto.exc = "none"
    /\ Len(run.route) = 3
    /\ run.route[2].sel = "EntryKeys"
    /\ run.peek.res = nodes[run.goto.res].value

\* ====================================================== schema construction
\* A parsed YANG statement without prefix (None, the empty string), and
\* the statement of an extension with its prefix.
Statement(keyword, argument, substatements) ==
    [prefix |-> "", keyword |-> keyword, argument |-> argument,
     substatements |-> substatements]
Prefixed(prefix, stmt) == [stmt EXCEPT !.prefix = prefix]

\* str.split("/")
RECURSIVE split(_, _)
split(str, acc) ==
    IF str = <<>> THEN <<acc>>
    ELSE IF Head(str) = "/" THEN <<acc>> \o split(Tail(str), <<>>)
    ELSE split(Tail(str), Append(acc, Head(str)))

\* ChangeSet.__init__: patch is a list of statements, subset a dictionary
\* from node names to change sets, kept as <<name, change set>> pairs.
\* NoChanges is None.
ChangeSet(patch, subset) == [null |-> FALSE, patch |-> patch, subset |-> subset]
NoChanges == [null |-> TRUE, patch |-> <<>>, subset |-> <<>>]

\* ChangeSet.from_statement: one level of subset for each component of the
\* path in the statement's argument, the last component innermost.
RECURSIVE from_statement_loop(_, _)
from_statement_loop(path, cs) ==
    IF path = <<>> THEN cs
    ELSE from_statement_loop(SubSeq(path, 1, Len(path) - 1),
                             ChangeSet(<<>>, <<<<path[Len(path)], cs>>>>))
from_statement(stmt) ==
    from_statement_loop(split(stmt.argument, <<>>), ChangeSet(<<stmt>>, <<>>))

\* ChangeSet.get_subset: self.subset.get(name)
get_subset(cs, name) ==
    IF \E j \in 1..Len(cs.subset) : cs.subset[j][1] = name
    THEN cs.subset[CHOOSE j \in 1..Len(cs.subset) : cs.subset[j][1] = name][2]
    ELSE NoChanges

\* A schema node under construction, as __init__ of its class leaves it:
\* no _config, default_deny none, no presence, default None (the empty
\* sequence; a default is the sequence of its values).  changes records
\* the change set that the node's substatements were handled with.
SchemaNode(kind, name, ns) ==
    [kind |-> kind, name |-> name, ns |-> ns, nsswitch |-> FALSE, children |-> <<>>,
     config |-> "unset", default_deny |-> "none", presence |-> FALSE, default |-> <<>>,
     changes |-> NoChanges]

\* The end of a handler: the receiver as the handler left it, or the
\* exception.
Handled(self) == [exc |-> "none", node |-> self]
Failed(self, e) == [exc |-> e, node |-> self]

\* InternalNode.add_child
add_child(self, node) == [self EXCEPT !.children = Append(@, node)]

\* The grouping that a uses statement refers to and the module that defines
\* it: grouping g of module n is { leaf gx; description; }, grouping h of
\* module m is { case hc { leaf hy; } }.
get_definition(stmt, mid) ==
    IF stmt.argument = <<"g">>
    THEN <<Statement("grouping", <<"g">>,
                     <<Statement("leaf", <<"g", "x">>, <<>>),
                       Statement("description", <<"t">>, <<>>)>>), Str_n>>
    ELSE <<Statement("grouping", <<"h">>,
                     <<Statement("case", <<"h", "c">>,
                                 <<Statement("leaf", <<"h", "y">>, <<>>)>>)>>), Str_m>>

\* SchemaNode.handler.get(key, "noop"): the name of the handler method.
handler(key) ==
    CASE key = "anydata" -> "anydata_stmt"
      [] key = "anyxml" -> "anyxml_stmt"
      [] key = "case" -> "case_stmt"
      [] key = "choice" -> "choice_stmt"
      [] key = "config" -> "config_stmt"
      [] key = "container" -> "container_stmt"
      [] key = "default" -> "default_stmt"
      [] key = "ietf-netconf-acm:default-deny-all" -> "nacm_default_deny_stmt"
      [] key = "ietf-netconf-acm:default-deny-write" -> "nacm_default_deny_stmt"
      [] key = "leaf" -> "leaf_stmt"
      [] key = "leaf-list" -> "leaf_list_stmt"
      [] key = "list" -> "list_stmt"
      [] key = "presence" -> "presence_stmt"
      [] key = "uses" -> "uses_stmt"
      [] OTHER -> "noop"

\* Context.prefix_map[mid][prefix][0]: the name of the module that a
\* prefix of module mid stands for, "" when the map has no such prefix.
prefix_map(mid, prefix) ==
    CASE prefix = "nacm" -> "ietf-netconf-acm"
      [] prefix = "m" -> "m"
      [] OTHER -> ""

\* Context.translate_qname: (local name, module name) of a name written in
\* module mid.  The modules m and n have their names for prefixes.
translate_qname(mid, name) ==
    IF Partition(name)[2] # <<>> THEN <<Partition(name)[3], Partition(name)[1]>>
    ELSE <<name, mid>>

\* getattr(self, mname): has the class of the receiver the method?  noop,
\* config_stmt and nacm_default_deny_stmt are methods of SchemaNode,
\* presence_stmt of ContainerNode, default_stmt of ChoiceNode, LeafNode
\* and LeafListNode, the others of InternalNode.
has_method(kind, mname) ==
    CASE mname \in {"noop", "config_stmt", "nacm_default_deny_stmt"} -> TRUE
      [] mname = "presence_stmt" -> kind = "container"
      [] mname = "default_stmt" -> kind \in {"choice", "leaf", "leaflist"}
      [] OTHER -> kind \in {"root", "container", "list", "choice", "case"}

\* The class of the node that a data definition handler makes
node_class(mname) ==
    CASE mname = "container_stmt" -> "container"
      [] mname = "list_stmt" -> "list"
      [] mname = "choice_stmt" -> "choice"
      [] mname = "case_stmt" -> "case"
      [] mname = "leaf_stmt" -> "leaf"
      [] mname = "leaf_list_stmt" -> "leaflist"
      [] mname = "anydata_stmt" -> "anydata"
      [] mname = "anyxml_stmt" -> "anyxml"
      [] OTHER -> "-"

\* SchemaNode.nacm_default_deny_stmt
nacm_default_deny_stmt(self, stmt) ==
    IF stmt.keyword = "default-deny-all" THEN [self EXCEPT !.default_deny = "all"]
    ELSE IF stmt.keyword = "default-deny-write" THEN [self EXCEPT !.default_deny = "write"]
    ELSE self

\* ContainerNode.presence_stmt
presence_stmt(self) == [self EXCEPT !.presence = TRUE]

\* default_stmt of ChoiceNode (the qualified name of the default case), of
\* LeafNode (the value) and of LeafListNode (one more value)
default_stmt(self, stmt, mid) ==
    IF self.kind = "choice"
    THEN [self EXCEPT !.default = <<translate_qname(mid, stmt.argument)>>]
    ELSE IF self.kind = "leaf" THEN [self EXCEPT !.default = <<parse_value(stmt.argument)>>]
    ELSE [self EXCEPT !.default = Append(@, parse_value(stmt.argument))]

\* The value of the expression `changes.get_subset(name) if changes else
\* None' in the two handle_child methods.  No parameter or local variable
\* is called name: the name is looked up in the module, where only a star
\* import can have bound it, to the value GlobalName.
GlobalName == <<"(", "g", "l", "o", "b", "a", "l", ")">>
name_bound == run.name_bound
subset_for_child(changes) ==
    IF changes.null THEN [exc |-> "none", cs |-> NoChanges]
    ELSE IF ~name_bound THEN [exc |-> "NameError", cs |-> NoChanges]
    ELSE [exc |-> "none", cs |-> get_subset(changes, GlobalName)]

RECURSIVE handle_substatements(_, _, _, _), substatements_loop(_, _, _, _)
RECURSIVE handle_child(_, _, _, _, _), InternalNode_handle_child(_, _, _, _, _)
RECURSIVE ChoiceNode_handle_child(_, _, _, _, _), uses_stmt(_, _, _, _)
RECURSIVE call_method(_, _, _, _, _)

\* method(s, mid, changes) for the method called mname
call_method(self, mname, stmt, mid, changes) ==
    CASE mname = "noop" -> Handled(self)
      [] mname = "config_stmt" ->
             Handled([self EXCEPT !.config = config_stmt(<<@>>, 1, NameText(stmt.argument))[1]])
      [] mname = "nacm_default_deny_stmt" -> Handled(nacm_default_deny_stmt(self, stmt))
      [] mname = "presence_stmt" -> Handled(presence_stmt(self))
      [] mname = "default_stmt" -> Handled(default_stmt(self, stmt, mid))
      [] mname = "uses_stmt" -> uses_stmt(self, stmt, mid, changes)
      [] OTHER -> handle_child(self, node_class(mname), stmt, mid, changes)

\* The loop of SchemaNode.handle_substatements: the key of a substatement
\* is its keyword, after the name of the module of its prefix if it has
\* one (KeyError for a prefix that the module does not know); the method
\* that handler names for the key is taken from the receiver
\* (AttributeError when its class has none) and called.
substatements_loop(self, subs, mid, changes) ==
    IF subs = <<>> THEN Handled(self)
    ELSE Bind(IF Head(subs).prefix = "" THEN Head(subs).keyword
              ELSE prefix_map(mid, Head(subs).prefix) \o ":" \o Head(subs).keyword,
              LAMBDA key :
         Bind(IF Head(subs).prefix # "" /\ prefix_map(mid, Head(subs).prefix) = ""
              THEN Failed(self, "KeyError")
              ELSE IF ~has_method(self.kind, handler(key))
              THEN Failed(self, "AttributeError")
              ELSE call_method(self, handler(key), Head(subs), mid, changes),
              LAMBDA r :
                  IF r.exc # "none" THEN r
                  ELSE substatements_loop(r.node, Tail(subs), mid, changes)))
handle_substatements(self, stmt, mid, changes) ==
    substatements_loop([self EXCEPT !.changes = changes], stmt.substatements, mid, changes)

\* InternalNode.uses_stmt
uses_stmt(self, stmt, mid, changes) ==
    handle_substatements(self, get_definition(stmt, mid)[1], get_definition(stmt, mid)[2],
                         changes)

\* InternalNode.handle_child, for a new node of class kind
InternalNode_handle_child(self, kind, stmt, mid, changes) ==
    Bind(SchemaNode(kind, stmt.argument, IF self.nsswitch THEN mid ELSE self.ns),
         LAMBDA node :
    Bind(subset_for_child(changes), LAMBDA sub :
        IF sub.exc # "none" THEN Failed(add_child(self, node), sub.exc)
        ELSE Bind(handle_substatements(node, stmt, mid, sub.cs), LAMBDA r :
                 [exc |-> r.exc, node |-> add_child(self, r.node)])))

\* ChoiceNode.handle_child if it added every child as it comes
ChoiceNode_handle_child_unwrapped(self, kind, stmt, mid, changes) ==
    InternalNode_handle_child(self, kind, stmt, mid, changes)

\* ChoiceNode.handle_child: a case is added as it is, any other node inside
\* a new case of the same name in the namespace of the module.
ChoiceNode_handle_child(self, kind, stmt, mid, changes) ==
    IF kind = "case" THEN InternalNode_handle_child(self, kind, stmt, mid, changes)
    ELSE Bind(SchemaNode("case", stmt.argument, mid), LAMBDA cn :
         Bind(subset_for_child(changes), LAMBDA sub :
             IF sub.exc # "none" THEN Failed(add_child(self, cn), sub.exc)
             ELSE Bind(InternalNode_handle_child([cn EXCEPT !.changes = sub.cs],
                                                 kind, stmt, mid, sub.cs),
                       LAMBDA r : [exc |-> r.exc, node |-> add_child(self, r.node)])))

handle_child(self, kind, stmt, mid, changes) ==
    IF self.kind = "choice" THEN ChoiceNode_handle_child(self, kind, stmt, mid, changes)
    ELSE InternalNode_handle_child(self, kind, stmt, mid, changes)

\* ------------------------------------------------------- statement trees
MaxStatements == 2

\* The sequences of at most n statements drawn from S
Bodies(S, n) == UNION {[1..k -> S] : k \in 0..n}

LeafStatements ==
    {Statement("leaf", Key_x, <<>>),
     Statement("leaf-list", Key_y, <<Statement("description", <<"t">>, <<>>)>>)}
CaseStatements ==
    {Statement("case", <<"k">>, b) : b \in Bodies(LeafStatements, 1)}
ChoiceStatements ==
    {Statement("choice", <<"o">>, b) :
         b \in Bodies(LeafStatements \cup CaseStatements
                          \cup {Statement("container", Key_e, <<>>),
                                Statement("uses", <<"g">>, <<>>),
                                Statement("uses", <<"h">>, <<>>)}, MaxStatements)}
ContainerStatements ==
    {Statement("container", <<"c">>, <<s>>) :
         s \in {Statement("leaf", Key_x, <<>>), Statement("uses", <<"g">>, <<>>),
                Statement("choice", <<"o">>, <<Statement("leaf", Key_x, <<>>)>>),
                Statement("choice", <<"o">>, <<Statement("uses", <<"g">>, <<>>)>>)}}
\* Statements that set a property of the node they stand in: config,
\* presence, default, the two of NACM, and extensions of a module without
\* handler and of an unknown prefix.
PropertyStatements ==
    {Statement("config", <<"f", "a", "l", "s", "e">>, <<>>),
     Statement("config", <<"t", "r", "u", "e">>, <<>>),
     Statement("presence", <<"t">>, <<>>), Statement("default", Key_x, <<>>),
     Prefixed("nacm", Statement("default-deny-all", <<>>, <<>>)),
     Prefixed("nacm", Statement("default-deny-write", <<>>, <<>>)),
     Prefixed("m", Statement("leaf", Key_z, <<>>)),
     Prefixed("q", Statement("leaf", Key_z, <<>>))}
AnyStatements ==
    {Statement("anydata", <<"a", "d">>, <<>>), Statement("anyxml", <<"a", "x">>, <<>>)}
\* Nodes of every class that hold one property statement or an anydata or
\* anyxml node, and a leaf-list with two defaults.
PropertyBodies ==
    {<<s>> : s \in PropertyStatements \cup AnyStatements}
        \cup {<<Statement(k, <<"p">>, <<s>>)>> :
                  k \in {"container", "list", "choice", "leaf", "leaf-list", "anydata"},
                  s \in PropertyStatements \cup AnyStatements}
        \cup {<<Statement("choice", <<"o">>, <<Statement("case", <<"k">>, <<s>>)>>)>> :
                  s \in PropertyStatements \cup AnyStatements}
        \cup {<<Statement("leaf-list", Key_y, <<Statement("default", Key_x, <<>>),
                                                 Statement("default", Key_z, <<>>)>>)>>}
\* The bodies of module m
ModuleStatements ==
    {Statement("module", Str_m, b) :
         b \in Bodies(ChoiceStatements, 1) \cup Bodies(ContainerStatements, 1)
                   \cup {<<Statement("list", <<"l">>, <<Statement("leaf", Name_k, <<>>)>>),
                           c>> : c \in ContainerStatements}
                   \cup PropertyBodies}

\* The change sets handed to the construction: None, an empty one, and
\* those of `refine o', `refine c/x' and `refine x'.
ChangeSets ==
    {NoChanges, ChangeSet(<<>>, <<>>)}
        \cup {from_statement(Statement("refine", a, <<>>)) :
                  a \in {<<"o">>, <<"c", "/", "x">>, Key_x}}

NotBuilt == Failed(SchemaNode("root", <<>>, <<>>), "-")

\* The schema root is made outside: it has no name and no namespace, and
\* its _nsswitch is set or not.
InitBuild ==
    /\ Idle
    /\ \E stmt \in ModuleStatements, cs \in ChangeSets, sw, nb \in BOOLEAN :
           run = [op |-> "build", stmt |-> stmt, changes |-> cs, nsswitch |-> sw,
                  name_bound |-> nb, out |-> NotBuilt]

\* root.handle_substatements(stmt, mid, changes) on the body of module m
HandleSubstatements ==
    /\ run.op = "build"
    /\ run' = [run EXCEPT
                   !.op = "built",
                   !.out = handle_substatements(
                               [SchemaNode("root", <<>>, <<>>) EXCEPT !.nsswitch = run.nsswitch],
                               run.stmt, Str_m, run.changes)]
    /\ UNCHANGED <<heap, nodes, now, last, snap>>

NextBuild == HandleSubstatements

SpecBuild == InitBuild /\ [][NextBuild]_vars

\* ------------------------------------------------ claims on construction
\* The tree that the statements subs make under a node of class kind when
\* each data node of a choice stands in a case of its own name: class,
\* name and children of every node.
RECURSIVE Layered(_, _)
Layered(kind, subs) ==
    IF subs = <<>> THEN <<>>
    ELSE (IF Head(subs).prefix # "" THEN <<>>
          ELSE IF handler(Head(subs).keyword) = "uses_stmt"
          THEN Layered(kind, get_definition(Head(subs), Str_m)[1].substatements)
          ELSE IF node_class(handler(Head(subs).keyword)) = "-" THEN <<>>
          ELSE IF kind = "choice" /\ Head(subs).keyword # "case"
          THEN <<[kind |-> "case", name |-> Head(subs).argument,
                  children |-> <<[kind |-> node_class(handler(Head(subs).keyword)),
                                  name |-> Head(subs).argument,
                                  children |-> Layered(node_class(handler(Head(subs).keyword)),
                                                       Head(subs).substatements)]>>]>>
          ELSE <<[kind |-> node_class(handler(Head(subs).keyword)),
                  name |-> Head(subs).argument,
                  children |-> Layered(node_class(handler(Head(subs).keyword)),
                                       Head(subs).substatements)]>>)
         \o Layered(kind, Tail(subs))

\* Class, name and children of a schema node
RECURSIVE Shape(_)
Shape(node) ==
    [kind |-> node.kind, name |-> node.name,
     children |-> [j \in 1..Len(node.children) |-> Shape(node.children[j])]]

\* Every child of every choice below node is a case.
RECURSIVE CasesOnly(_)
CasesOnly(node) ==
    \A j \in 1..Len(node.children) :
        /\ node.kind = "choice" => node.children[j].kind = "case"
        /\ CasesOnly(node.children[j])

\* C29: after the construction of the schema from a statement tree every
\* child of a choice is a case, and a data node statement standing
\* directly in a choice has made a case of the same name with the data
\* node for its only child.
C29_ChoiceCaseLayering ==
    (run.op = "built" /\ run.out.exc = "none") =>
        /\ CasesOnly(run.out.node)
        /\ Shape(run.out.node).children = Layered("root", run.stmt.substatements)

\* A choice was built from a leaf, which stands in a case of its own, and
\* from a case statement.
C29_Witness ==
    /\ run.op = "built" /\ run.out.exc = "none"
    /\ Len(run.out.node.children) = 1
    /\ run.out.node.children[1].kind = "choice"
    /\ Len(run.out.node.children[1].children) = 2
    /\ run.out.node.children[1].children[1].name = Key_x
    /\ run.out.node.children[1].children[1].kind = "case"
    /\ Len(run.out.node.children[1].children[1].children) = 1
    /\ run.out.node.children[1].children[1].children[1].kind = "leaf"
    /\ run.out.node.children[1].children[2].name = <<"k">>

\* The substatements of every child below node were handled with the
\* subset of the node's change set that the child's name selects.
RECURSIVE Propagated(_)
Propagated(node) ==
    \A j \in 1..Len(node.children) :
        /\ node.children[j].changes =
               (IF node.changes.null THEN NoChanges
                ELSE get_subset(node.changes, node.children[j].name))
        /\ Propagated(node.children[j])

\* C30: when handle_child builds a child with a non-null change set, the
\* construction ends without error and the child's substatements are
\* handled with the subset of the change set keyed by the child's name,
\* None when there is none.
C30_ChangeSetPropagation ==
    (run.op = "built" /\ ~run.changes.null) =>
        /\ run.out.exc = "none"
        /\ Propagated(run.out.node)

====
